---------------------------- MODULE Spec2Model ----------------------------
(***************************************************************************)
(* BlueprintAI backend: the provider cascade (services/llm_service.py) and *)
(* the blueprint normalizer (services/normalizer.py).                      *)
(*                                                                         *)
(* Python values are modelled as tagged records, so that values of         *)
(* different Python types can be stored in one field and compared:         *)
(*   None   [t |-> "none"]                                                 *)
(*   str    [t |-> "str",  v |-> <<chunk, ...>>]                           *)
(*   int    [t |-> "num",  v |-> n]                                        *)
(*   list   [t |-> "list", v |-> <<value, ...>>]                           *)
(*   dict   [t |-> "dict", v |-> [key |-> value, ...]]                     *)
(* A string is the sequence of its chunks; the chunk " " is a run of       *)
(* whitespace, every other chunk is a run of non-whitespace text that is   *)
(* never split further (a word, a fence, a whole fixed sentence).          *)
(***************************************************************************)
EXTENDS Integers, Sequences, FiniteSets, TLC

VARIABLES
    env,            \* GEMINI_API_KEY, GROQ_API_KEY, OPENROUTER_API_KEY
    providers,      \* LLMService.providers
    is_demo_mode,   \* LLMService.is_demo_mode
    pc,             \* "idle" | "calling" | "done": position of the one request
    entry,          \* the cascade function the caller's entry point runs
    prompt,         \* the caller's prompt
    idx,            \* position of the for loop in self.providers (1-based)
    errors,         \* the local list errors of generate_with_fallback (gone on return)
    calls,          \* history: providers whose endpoint was called, in order
    last,           \* history: the event that completed the latest provider call
    result,         \* the value returned to the caller (None until done)
    raised,         \* TRUE iff the entry point raised instead of returning
    npc,            \* normalizer: "input" | "normalized" | "renormalized"
    nraw,           \* normalizer: the raw value handed to normalize_blueprint
    nout,           \* normalizer: normalize_blueprint(nraw)
    nagain,         \* normalizer: normalize_blueprint(nout)
    nmap,           \* normalizer: what map_to_frontend_format did
    CHANGE_PROPAGATION, \* routers/revision.py: the module-level propagation map
    apc,            \* API: "off" | "idle" | "handling" | "responded"
    endpoint,       \* API: the route handler that serves the request in hand
    planned,        \* API: what the planner_service method returned to the handler
    response        \* API: what the end user receives

cascadeVars == <<env, providers, is_demo_mode, pc, entry, prompt, idx, errors,
                 calls, last, result, raised>>
normVars == <<npc, nraw, nout, nagain, nmap>>
appVars == <<CHANGE_PROPAGATION, apc, endpoint, planned, response>>
vars == <<cascadeVars, normVars, appVars>>

-----------------------------------------------------------------------------
(* Python values *)

None == [t |-> "none"]
Str(chunks) == [t |-> "str", v |-> chunks]
S(chunk) == Str(<<chunk>>)
Num(n) == [t |-> "num", v |-> n]
List(items) == [t |-> "list", v |-> items]
Dict(fields) == [t |-> "dict", v |-> fields]
EmptyDict == Dict(<<>>)

IsNone(x) == x.t = "none"
IsStr(x) == x.t = "str"
IsList(x) == x.t = "list"
IsDict(x) == x.t = "dict"

\* Python truthiness of a value: bool(x)
Truthy(x) ==
    CASE x.t = "none" -> FALSE
      [] x.t = "str"  -> x.v # <<>>
      [] x.t = "num"  -> x.v # 0
      [] x.t = "list" -> x.v # <<>>
      [] x.t = "dict" -> DOMAIN x.v # {}

\* dict.get(key, default)
Get(d, key, default) == IF key \in DOMAIN d.v THEN d.v[key] ELSE default

\* x or y
Or(x, y) == IF Truthy(x) THEN x ELSE y

-----------------------------------------------------------------------------
(* Strings as chunk sequences *)

WS == " "

RECURSIVE LStrip(_)
LStrip(s) == IF s # <<>> /\ Head(s) = WS THEN LStrip(Tail(s)) ELSE s

RECURSIVE RStrip(_)
RStrip(s) ==
    IF s # <<>> /\ s[Len(s)] = WS THEN RStrip(SubSeq(s, 1, Len(s) - 1)) ELSE s

\* str.strip()
Strip(s) == RStrip(LStrip(s))

\* s.startswith(sep), on chunk sequences
StartsWith(s, sep) == Len(s) >= Len(sep) /\ SubSeq(s, 1, Len(sep)) = sep

\* s.find(sep): 1-based position of the first occurrence, 0 when absent
\* (Python's 0-based index plus one; Python's -1 is 0 here)
Find(s, sep) ==
    LET hits == {i \in 1..(Len(s) - Len(sep) + 1) :
                    SubSeq(s, i, i + Len(sep) - 1) = sep}
    IN  IF hits = {} THEN 0 ELSE CHOOSE i \in hits : \A j \in hits : i <= j

\* sep in s
Contains(s, sep) == Find(s, sep) # 0

\* s.split(sep): the pieces between non-overlapping occurrences, left to right
RECURSIVE Split(_, _)
Split(s, sep) ==
    LET i == Find(s, sep)
    IN  IF i = 0 THEN <<s>>
        ELSE <<SubSeq(s, 1, i - 1)>> \o Split(SubSeq(s, i + Len(sep), Len(s)), sep)

\* str(status) inside an f-string
StatusText(status) == ToString(status)


-----------------------------------------------------------------------------
(* Configuration: llm_service.py, module level *)

PROVIDER_ORDER == <<"gemini", "groq", "openrouter">>
Providers == {"gemini", "groq", "openrouter"}

PLACEHOLDER_KEY == <<"YOUR_API_KEY_HERE">>

\* The values an API key read from the environment takes here: unset (the
\* getenv default ""), whitespace only, the placeholder, a real key.
KeyValues == {<<>>, <<WS>>, PLACEHOLDER_KEY, <<"sk-live">>}

\* A validity test that takes a whitespace-only key for a configured one
_has_valid_key_NoStrip(key) == key # <<>> /\ key # PLACEHOLDER_KEY

\* _has_valid_key(key), as the truth value that any() and if see
_has_valid_key(key) == key # <<>> /\ Strip(key) # <<>> /\ key # PLACEHOLDER_KEY

\* A demo flag that takes only an unset key for an unconfigured one
IS_DEMO_MODE_UnsetOnly(e) ==
    ~ (e["gemini"] # <<>> \/ e["groq"] # <<>> \/ e["openrouter"] # <<>>)

\* A demo flag derived from the primary provider's key alone
IS_DEMO_MODE_GeminiOnly(e) == ~ _has_valid_key(e["gemini"])

\* IS_DEMO_MODE = not any([...])
IS_DEMO_MODE(e) ==
    ~ (\/ _has_valid_key(e["gemini"])
       \/ _has_valid_key(e["groq"])
       \/ _has_valid_key(e["openrouter"]))

\* A provider list that puts groq ahead of gemini
_build_provider_list_GroqFirst(e) ==
    LET a1 == IF _has_valid_key(e["groq"]) THEN <<"groq">> ELSE <<>>
        a2 == IF _has_valid_key(e["gemini"]) THEN Append(a1, "gemini") ELSE a1
        a3 == IF _has_valid_key(e["openrouter"]) THEN Append(a2, "openrouter") ELSE a2
    IN  a3

\* LLMService._build_provider_list
_build_provider_list(e) ==
    LET a1 == IF _has_valid_key(e["gemini"]) THEN <<"gemini">> ELSE <<>>
        a2 == IF _has_valid_key(e["groq"]) THEN Append(a1, "groq") ELSE a1
        a3 == IF _has_valid_key(e["openrouter"]) THEN Append(a2, "openrouter") ELSE a2
    IN  a3

-----------------------------------------------------------------------------
(* Provider calls: one HTTPS POST, mapped to a result dict *)

\* The chunks a provider's reply text is made of: a code fence, the word
\* json, whitespace, braces, one object member, a number, prose.
\* FENCE is the three-backtick markdown code fence
FENCE == "<fence>"
MEMBER == "\"a\": 1"
TextChunks == {FENCE, "json", WS, "{", "}", MEMBER, "1", "prose"}

MaxTextLen == 2

RECURSIVE SeqsUpTo(_, _)
SeqsUpTo(A, n) ==
    IF n = 0 THEN {<<>>}
    ELSE LET shorter == SeqsUpTo(A, n - 1)
         IN  shorter \cup {Append(s, a) : s \in {x \in shorter : Len(x) = n - 1}, a \in A}

\* A member whose value is a string: MEMBER_OPEN, the chunks of the string,
\* QUOTE
MEMBER_OPEN == "\"d\": \""
QUOTE == "\""

\* JSON objects as a provider writes them, each with the value it denotes
JsonObjects ==
    {[text |-> <<"{", "}">>, value |-> [t |-> "dict", v |-> <<>>]],
     [text |-> <<"{", MEMBER, "}">>,
      value |-> [t |-> "dict", v |-> [a |-> [t |-> "num", v |-> 1]]]],
     [text |-> <<"{", MEMBER_OPEN, "prose", QUOTE, "}">>,
      value |-> [t |-> "dict", v |-> [d |-> [t |-> "str", v |-> <<"prose">>]]]],
     [text |-> <<"{", MEMBER_OPEN, FENCE, QUOTE, "}">>,
      value |-> [t |-> "dict", v |-> [d |-> [t |-> "str", v |-> <<FENCE>>]]]]}

\* What a provider puts around the object: a json fence, a plain fence,
\* prose before the object, prose before a fence, prose inside the fence
Wrappings ==
    {[pre |-> <<FENCE, "json", WS>>, post |-> <<WS, FENCE>>],
     [pre |-> <<FENCE, WS>>, post |-> <<WS, FENCE>>],
     [pre |-> <<"prose", WS>>, post |-> <<>>],
     [pre |-> <<"prose", WS, FENCE, "json", WS>>, post |-> <<WS, FENCE>>],
     [pre |-> <<"prose", WS, FENCE, WS>>, post |-> <<WS, FENCE>>],
     [pre |-> <<FENCE, "json", WS, "prose", WS>>, post |-> <<WS, FENCE>>]}

Wrap(w, o) == w.pre \o o.text \o w.post

WrappedTexts == {Wrap(w, o) : w \in Wrappings, o \in JsonObjects}

\* The texts a provider can put in its reply
Texts == SeqsUpTo(TextChunks, MaxTextLen) \cup WrappedTexts

\* HTTP statuses a provider answers with
Statuses == {200, 429, 401, 403, 402, 500}

\* What a 200 body holds: JSON with the text at the expected path, JSON
\* without that path (the .get defaults give ""), JSON whose candidates /
\* choices list is empty (the [0] raises IndexError), or no JSON at all
\* (response.json() raises).
Bodies ==
    [kind : {"text"}, text : Texts]
    \cup {[kind |-> "no_text"], [kind |-> "empty_list"], [kind |-> "not_json"]}

\* What the transport does with one POST
Transports ==
    [kind : {"http"}, status : {200}, body : Bodies]
    \cup [kind : {"http"}, status : Statuses \ {200}, body : {[kind |-> "not_json"]}]
    \cup {[kind |-> "timeout"]}
    \cup [kind : {"exception"}, message : {"All connection attempts failed"}]

Success(text) == [success |-> TRUE, content |-> Str(text)]
Failure(chunks) == [success |-> FALSE, error |-> Str(chunks)]

\* A 200 branch without the check that the text is non-empty
Http200_AnyText(body, name) ==
    CASE body.kind = "text" -> Success(body.text)
      [] body.kind = "no_text" -> Success(<<>>)
      [] body.kind = "empty_list" -> Failure(<<"list index out of range">>)
      [] body.kind = "not_json" ->
            Failure(<<"Expecting value: line 1 column 1 (char 0)">>)

\* The status == 200 branch shared by the three provider methods;
\* name is the provider name used in the Empty response message.
Http200(body, name) ==
    CASE body.kind = "text" ->
            IF body.text # <<>> THEN Success(body.text)
            ELSE Failure(<<"Empty response from ", name>>)
      [] body.kind = "no_text" -> Failure(<<"Empty response from ", name>>)
      [] body.kind = "empty_list" -> Failure(<<"list index out of range">>)
      [] body.kind = "not_json" ->
            Failure(<<"Expecting value: line 1 column 1 (char 0)">>)

\* The except clauses shared by the three provider methods
TransportError(tr) ==
    IF tr.kind = "timeout" THEN Failure(<<"Timeout">>)
    ELSE Failure(<<tr.message>>)

\* LLMService._call_gemini
_call_gemini(tr) ==
    IF tr.kind # "http" THEN TransportError(tr)
    ELSE CASE tr.status = 200 -> Http200(tr.body, "Gemini")
           [] tr.status = 429 -> Failure(<<"Rate limited (429)">>)
           [] tr.status \in {401, 403} ->
                Failure(<<"Authentication failed (", StatusText(tr.status), ")">>)
           [] OTHER -> Failure(<<"HTTP ", StatusText(tr.status)>>)

\* LLMService._call_groq
_call_groq(tr) ==
    IF tr.kind # "http" THEN TransportError(tr)
    ELSE CASE tr.status = 200 -> Http200(tr.body, "Groq")
           [] tr.status = 429 -> Failure(<<"Rate limited (429)">>)
           [] tr.status \in {401, 403} ->
                Failure(<<"Authentication failed (", StatusText(tr.status), ")">>)
           [] OTHER -> Failure(<<"HTTP ", StatusText(tr.status)>>)

\* A tertiary provider call without the status == 402 branch
_call_openrouter_No402(tr) ==
    IF tr.kind # "http" THEN TransportError(tr)
    ELSE CASE tr.status = 200 -> Http200(tr.body, "DeepSeek")
           [] tr.status = 429 -> Failure(<<"DeepSeek quota exceeded (429)">>)
           [] tr.status \in {401, 403} ->
                Failure(<<"Authentication failed (", StatusText(tr.status), ")">>)
           [] OTHER -> Failure(<<"HTTP ", StatusText(tr.status)>>)

\* LLMService._call_openrouter
_call_openrouter(tr) ==
    IF tr.kind # "http" THEN TransportError(tr)
    ELSE CASE tr.status = 200 -> Http200(tr.body, "DeepSeek")
           [] tr.status = 429 -> Failure(<<"DeepSeek quota exceeded (429)">>)
           [] tr.status = 402 -> Failure(<<"Payment required (402)">>)
           [] tr.status \in {401, 403} ->
                Failure(<<"Authentication failed (", StatusText(tr.status), ")">>)
           [] OTHER -> Failure(<<"HTTP ", StatusText(tr.status)>>)

\* The if / elif chain of generate_with_fallback that picks the method
CallProvider(provider, tr) ==
    CASE provider = "gemini" -> _call_gemini(tr)
      [] provider = "groq" -> _call_groq(tr)
      [] provider = "openrouter" -> _call_openrouter(tr)

-----------------------------------------------------------------------------
(* Demo mode payloads *)

\* LLMService._get_demo_blueprint
_get_demo_blueprint ==
    Dict([
        summary |-> Dict([
            problem_statement |-> S("Students and teachers struggle with manual attendance tracking, leading to errors and wasted time."),
            target_users |-> List(<<S("Students"), S("Teachers"), S("Administrators")>>),
            objectives |-> List(<<
                S("Automate attendance marking"),
                S("Reduce manual errors"),
                S("Generate reports automatically"),
                S("Track attendance history")>>),
            scope |-> S("Web-based attendance system for a single educational institution"),
            what_this_means |-> S("This project replaces paper-based attendance with a digital solution"),
            why_this_matters |-> S("Understanding scope helps you stay focused and explain your project clearly")]),
        features |-> Dict([
            features |-> List(<<
                Dict([
                    feature_name |-> S("User Authentication"),
                    what_it_does |-> S("Allows different users to log in securely"),
                    why_it_exists |-> S("To protect student data and ensure only authorized access"),
                    how_it_helps |-> S("Teachers can only see their classes, students can only see their records"),
                    limitations |-> S("Requires password reset mechanism for forgotten passwords")]),
                Dict([
                    feature_name |-> S("Attendance Marking"),
                    what_it_does |-> S("Teachers can mark present/absent for each student"),
                    why_it_exists |-> S("Core functionality that replaces manual roll call"),
                    how_it_helps |-> S("Saves 5-10 minutes per class"),
                    limitations |-> S("Requires internet connectivity")])>>)]),
        feasibility |-> Dict([
            feasibility_level |-> S("High"),
            feasibility_explanation |-> S("Uses standard web technologies taught in most colleges"),
            strengths |-> List(<<
                S("Clear requirements"),
                S("Well-documented technologies"),
                S("Real-world application")>>),
            risks |-> List(<<
                S("Security implementation"),
                S("Database design"),
                S("Time management")>>),
            why_this_matters |-> S("Knowing feasibility helps you plan realistically")]),
        system_flow |-> Dict([
            flow_title |-> S("Attendance Marking Flow"),
            steps |-> List(<<
                Dict([
                    step_number |-> Num(1),
                    actor |-> S("User"),
                    action |-> S("Opens application"),
                    explanation |-> S("Entry point")]),
                Dict([
                    step_number |-> Num(2),
                    actor |-> S("System"),
                    action |-> S("Shows login page"),
                    explanation |-> S("Security first")]),
                Dict([
                    step_number |-> Num(3),
                    actor |-> S("Teacher"),
                    action |-> S("Enters credentials"),
                    explanation |-> S("Authentication")]),
                Dict([
                    step_number |-> Num(4),
                    actor |-> S("System"),
                    action |-> S("Validates and shows dashboard"),
                    explanation |-> S("Role-based access")]),
                Dict([
                    step_number |-> Num(5),
                    actor |-> S("Teacher"),
                    action |-> S("Selects class"),
                    explanation |-> S("Choose which class to mark")]),
                Dict([
                    step_number |-> Num(6),
                    actor |-> S("System"),
                    action |-> S("Shows student list"),
                    explanation |-> S("Display markable students")]),
                Dict([
                    step_number |-> Num(7),
                    actor |-> S("Teacher"),
                    action |-> S("Marks attendance"),
                    explanation |-> S("Core action")]),
                Dict([
                    step_number |-> Num(8),
                    actor |-> S("System"),
                    action |-> S("Saves and confirms"),
                    explanation |-> S("Persistence and feedback")])>>),
            summary |-> S("Simple 8-step flow from login to confirmation")]),
        tech_stack |-> Dict([
            primary_stack |-> List(<<
                Dict([
                    category |-> S("Frontend"),
                    technology |-> S("React"),
                    justification |-> S("Component-based, well-documented"),
                    skill_level |-> S("Intermediate")]),
                Dict([
                    category |-> S("Backend"),
                    technology |-> S("Node.js + Express"),
                    justification |-> S("JavaScript throughout the stack"),
                    skill_level |-> S("Beginner-friendly")]),
                Dict([
                    category |-> S("Database"),
                    technology |-> S("MongoDB"),
                    justification |-> S("Flexible schema, easy to learn"),
                    skill_level |-> S("Beginner-friendly")])>>),
            backup_stack |-> List(<<
                Dict([
                    category |-> S("Frontend"),
                    technology |-> S("Vue.js"),
                    why_backup |-> S("Simpler learning curve if React is too complex")]),
                Dict([
                    category |-> S("Backend"),
                    technology |-> S("Python Flask"),
                    why_backup |-> S("If JavaScript backend is challenging")])>>)]),
        comparison |-> Dict([
            existing_solutions |-> List(<<
                Dict([
                    solution_name |-> S("Google Forms"),
                    what_it_does |-> S("Basic data collection"),
                    limitations |-> S("No role-based access, no reports")]),
                Dict([
                    solution_name |-> S("Enterprise ERP systems"),
                    what_it_does |-> S("Full institution management"),
                    limitations |-> S("Too complex and expensive for single use case")])>>),
            unique_aspects |-> List(<<
                S("Focused on college use case"),
                S("Student-friendly interface"),
                S("Built-in report generation")>>),
            why_this_project_is_still_valuable |-> List(<<
                S("Learning experience"),
                S("Customizable for specific needs"),
                S("No licensing costs")>>),
            summary_insight |-> S("While attendance systems exist, this project provides hands-on learning while creating something tailored to your institution's specific needs.")]),
        viva |-> Dict([
            project_overview_explanation |-> S("This is a web-based attendance system that helps teachers mark attendance digitally and generate reports automatically."),
            problem_statement_explanation |-> S("Manual attendance wastes 5-10 minutes per class and is prone to errors. Our system automates this completely."),
            architecture_explanation |-> S("We use a three-tier architecture: React frontend talks to Node.js backend, which stores data in MongoDB."),
            unique_feature_explanation |-> S("Automatic report generation sets us apart from simple digital forms."),
            common_questions |-> List(<<
                Dict([
                    question |-> S("Why did you choose this tech stack?"),
                    suggested_answer |-> S("React for reusable components, Node.js for JavaScript consistency, MongoDB for flexible data storage."),
                    why_asked |-> S("Tests if you made informed choices")]),
                Dict([
                    question |-> S("What are the limitations?"),
                    suggested_answer |-> S("Requires internet, no offline mode, single institution only."),
                    why_asked |-> S("Tests honesty and self-awareness")])>>),
            hackathon_questions |-> List(<<
                Dict([
                    question |-> S("What makes this unique?"),
                    suggested_response |-> S("Built specifically for college context with student-friendly design"),
                    key_points |-> List(<<
                        S("Focus on UX"),
                        S("Report generation"),
                        S("Role-based access")>>)])>>)]),
        pitch |-> Dict([
            thirty_second_pitch |-> S("Teachers spend 5-10 minutes every class on attendance. Our digital system does it in 30 seconds with zero errors and automatic reports."),
            one_minute_pitch |-> S("Imagine never losing an attendance register again. Our system lets teachers mark attendance with a few clicks, generates reports instantly, and gives students transparency into their records. Built with modern web technologies, it's designed specifically for college environments."),
            key_points |-> List(<<
                S("Saves time"),
                S("Eliminates errors"),
                S("Automatic reports"),
                S("Role-based access")>>)]),
        diagrams |-> Dict([
            user_flow_mermaid |-> Str(<<"flowchart", WS, "TD\n    A[User Opens App] --> B{Logged In?}\n    B -->|No| C[Login Page]\n    B -->|Yes| D[Dashboard]\n    C --> E[Enter Credentials]\n    E --> F{Valid?}\n    F -->|No| C\n    F -->|Yes| D\n    D --> G[Select Class]\n    G --> H[Mark Attendance]\n    H --> I[Save & Confirm]">>),
            tech_stack_mermaid |-> Str(<<"flowchart", WS, "LR\n    subgraph Frontend\n        A[React App]\n    end\n    subgraph Backend\n        B[Node.js API]\n    end\n    subgraph Database\n        C[(MongoDB)]\n    end\n    A -->|HTTP| B\n    B -->|Queries| C">>)])])

\* The dict literal of the elif branch of _get_demo_response
DemoExpandedIdea ==
    Dict([
        problem_statement |-> S("Students often spend valuable time manually tracking attendance, which is error-prone and time-consuming. A digital attendance system would automate this process, saving time and improving accuracy."),
        target_users |-> List(<<S("Students"), S("Teachers"), S("Administrators")>>),
        objectives |-> List(<<
            S("Automate the attendance tracking process"),
            S("Reduce manual errors in attendance records"),
            S("Provide easy access to attendance history"),
            S("Generate attendance reports automatically")>>),
        scope |-> S("This project covers a web-based attendance system for a single institution. Mobile app development and biometric integration are outside the current scope."),
        what_this_means |-> S("Your project will help educational institutions move from paper-based attendance to a digital system that saves time and reduces errors."),
        why_this_matters |-> S("Understanding your problem statement clearly is essential for explaining your project confidently in any review.")])

DEMO_GENERIC_TEXT == "This is a demo response. Please configure at least one API key in the .env file for full AI functionality. The system supports: GEMINI_API_KEY, GROQ_API_KEY, or OPENROUTER_API_KEY (all free!)."

\* json.dumps(d) of the two demo dicts: an opening brace, the serialized
\* members as one chunk, a closing brace. JsonMembers maps a members chunk
\* to the dict json.loads rebuilds from it.
BLUEPRINT_MEMBERS == "<members of the demo blueprint>"
EXPANDED_MEMBERS == "<members of the demo expanded idea>"

\* The members of three answers to REVISION_PROMPT, each one chunk: a feature
\* change that also affects the summary, a tech change that names pitch
\* twice and a section its type already covers, a change of a type the
\* propagation map does not know
REVISION_FEATURE == "\"change_type\": \"feature\", \"sections_affected\": [\"summary\"]"
REVISION_TECH ==
    "\"change_type\": \"tech\", \"sections_affected\": [\"pitch\", \"techStack\", \"pitch\"]"
REVISION_RENAME == "\"change_type\": \"rename\", \"sections_affected\": [\"summary\"]"
RevisionChunks == {REVISION_FEATURE, REVISION_TECH, REVISION_RENAME}

MemberChunks == {MEMBER, BLUEPRINT_MEMBERS, EXPANDED_MEMBERS} \cup RevisionChunks

JsonMembers(chunk) ==
    CASE chunk = MEMBER -> Dict([a |-> Num(1)])
      [] chunk = BLUEPRINT_MEMBERS -> _get_demo_blueprint
      [] chunk = EXPANDED_MEMBERS -> DemoExpandedIdea
      [] chunk = REVISION_FEATURE ->
            Dict([change_type |-> S("feature"),
                  sections_affected |-> List(<<S("summary")>>)])
      [] chunk = REVISION_TECH ->
            Dict([change_type |-> S("tech"),
                  sections_affected |-> List(<<S("pitch"), S("techStack"), S("pitch")>>)])
      [] chunk = REVISION_RENAME ->
            Dict([change_type |-> S("rename"),
                  sections_affected |-> List(<<S("summary")>>)])

\* Prompts are chunk sequences too. str.lower() on the chunks used here:
Lower(chunk) ==
    CASE chunk = "Blueprint" -> "blueprint"
      [] chunk = "EXPAND" -> "expand"
      [] chunk = "Explain" -> "explain"
      [] chunk = "IMPORTANT:" -> "important:"
      [] chunk = "Respond" -> "respond"
      [] chunk = "ONLY" -> "only"
      [] chunk = "JSON." -> "json."
      [] chunk = "No" -> "no"
      [] chunk = "JSON" -> "json"
      [] OTHER -> chunk

LowerSeq(s) == [i \in 1..Len(s) |-> Lower(s[i])]

\* The prompts callers send
Prompts == {
    <<"Explain", WS, "recursion">>,
    <<"Generate", WS, "the", WS, "Blueprint">>,
    <<"EXPAND", WS, "this", WS, "idea">>,
    <<"full", WS, "plan:", WS, "expand", WS, "the", WS, "problem", WS, "statement">>}

\* The sentence generate_json_with_fallback appends to the prompt
JSON_INSTRUCTION ==
    <<WS, "IMPORTANT:", WS, "Respond", WS, "ONLY", WS, "with", WS, "valid", WS,
      "JSON.", WS, "No", WS, "markdown", WS, "code", WS, "blocks,", WS, "no", WS,
      "explanation,", WS, "just", WS, "the", WS, "raw", WS, "JSON", WS, "object.">>

\* A demo responder that tests the expanded-idea keywords first
_get_demo_response_ExpandFirst(p) ==
    LET prompt_lower == LowerSeq(p)
    IN  IF \/ Contains(prompt_lower, <<"problem", WS, "statement">>)
           \/ Contains(prompt_lower, <<"expand">>)
        THEN [success |-> TRUE,
              content |-> Str(<<"{", EXPANDED_MEMBERS, "}">>),
              is_demo |-> TRUE]
        ELSE IF \/ Contains(prompt_lower, <<"master">>)
                \/ Contains(prompt_lower, <<"blueprint">>)
                \/ Contains(prompt_lower, <<"full">>)
        THEN [success |-> TRUE,
              content |-> Str(<<"{", BLUEPRINT_MEMBERS, "}">>),
              is_demo |-> TRUE]
        ELSE [success |-> TRUE,
              content |-> S(DEMO_GENERIC_TEXT),
              is_demo |-> TRUE]

\* LLMService._get_demo_response
_get_demo_response(p) ==
    LET prompt_lower == LowerSeq(p)
    IN  IF \/ Contains(prompt_lower, <<"master">>)
           \/ Contains(prompt_lower, <<"blueprint">>)
           \/ Contains(prompt_lower, <<"full">>)
        THEN [success |-> TRUE,
              content |-> Str(<<"{", BLUEPRINT_MEMBERS, "}">>),
              is_demo |-> TRUE]
        ELSE IF \/ Contains(prompt_lower, <<"problem", WS, "statement">>)
                \/ Contains(prompt_lower, <<"expand">>)
        THEN [success |-> TRUE,
              content |-> Str(<<"{", EXPANDED_MEMBERS, "}">>),
              is_demo |-> TRUE]
        ELSE [success |-> TRUE,
              content |-> S(DEMO_GENERIC_TEXT),
              is_demo |-> TRUE]

-----------------------------------------------------------------------------
(* JSON extraction: generate_json_with_fallback, the try block *)

\* Remove markdown code blocks if present
Unfence(content) ==
    IF Contains(content, <<FENCE, "json">>)
    THEN Split(Split(content, <<FENCE, "json">>)[2], <<FENCE>>)[1]
    ELSE IF Contains(content, <<FENCE>>)
    THEN LET parts == Split(content, <<FENCE>>)
         IN  IF Len(parts) >= 2 THEN parts[2] ELSE content
    ELSE content

\* Try to find JSON object boundaries
FromFirstBrace(content) ==
    LET c == Strip(content)
    IN  IF StartsWith(c, <<"{">>) THEN c
        ELSE LET start_idx == Find(c, <<"{">>)
             IN  IF start_idx # 0 THEN SubSeq(c, start_idx, Len(c)) ELSE c

JsonOk(value) == [ok |-> TRUE, value |-> value]
JsonDecodeError(msg) == [ok |-> FALSE, msg |-> msg]

\* What follows a complete JSON value: only whitespace
JsonEnd(value, rest) ==
    IF LStrip(rest) = <<>> THEN JsonOk(value) ELSE JsonDecodeError("Extra data")

\* A string whose opening quote has been read: its chunks up to the closing
\* quote, and what follows it
JsonString(s) ==
    LET q == Find(s, <<QUOTE>>)
    IN  IF q = 0 THEN [ok |-> FALSE]
        ELSE [ok |-> TRUE, body |-> SubSeq(s, 1, q - 1), rest |-> SubSeq(s, q + 1, Len(s))]

\* json.loads(text) on the chunk grammar
\*   document ::= ws value ws
\*   value ::= 1 | " chunks " | { ws } | { ws member ws }
\*   member ::= MEMBER | MEMBER_OPEN chunks "
JsonLoads(text) ==
    LET s == LStrip(text)
    IN  IF s = <<>> THEN JsonDecodeError("Expecting value")
        ELSE IF Head(s) = "1" THEN JsonEnd(Num(1), Tail(s))
        ELSE IF Head(s) = QUOTE
        THEN LET str == JsonString(Tail(s))
             IN  IF str.ok THEN JsonEnd(Str(str.body), str.rest)
                 ELSE JsonDecodeError("Unterminated string starting at")
        ELSE IF Head(s) = "{"
        THEN LET m == LStrip(Tail(s))
             IN  IF m = <<>> THEN
                     JsonDecodeError("Expecting property name enclosed in double quotes")
                 ELSE IF Head(m) = "}" THEN JsonEnd(EmptyDict, Tail(m))
                 ELSE IF Head(m) = MEMBER_OPEN
                 THEN LET str == JsonString(Tail(m))
                          c == IF str.ok THEN LStrip(str.rest) ELSE <<>>
                      IN  IF ~ str.ok
                          THEN JsonDecodeError("Unterminated string starting at")
                          ELSE IF c # <<>> /\ Head(c) = "}"
                          THEN JsonEnd(Dict([d |-> Str(str.body)]), Tail(c))
                          ELSE JsonDecodeError("Expecting ',' delimiter")
                 ELSE IF Head(m) \in MemberChunks
                 THEN LET c == LStrip(Tail(m))
                      IN  IF c # <<>> /\ Head(c) = "}"
                          THEN JsonEnd(JsonMembers(Head(m)), Tail(c))
                          ELSE JsonDecodeError("Expecting ',' delimiter")
                 ELSE JsonDecodeError("Expecting property name enclosed in double quotes")
        ELSE JsonDecodeError("Expecting value")

\* result.get(key): the result dicts are records
RGet(r, key, default) == IF key \in DOMAIN r THEN r[key] ELSE default

\* generate_json_with_fallback, after the cascade returned
\* A JSON wrapper whose fallback returns the stripped text
JsonResult_Stripped(res) ==
    IF ~ res.success THEN res
    ELSE LET text == FromFirstBrace(Unfence(res.content.v))
             parsed == JsonLoads(text)
         IN  IF parsed.ok
             THEN [success |-> TRUE,
                   content |-> parsed.value,
                   provider_used |-> RGet(res, "provider_used", None)]
             ELSE [success |-> TRUE,
                   content |-> Str(text),
                   provider_used |-> RGet(res, "provider_used", None),
                   warning |-> Str(<<"Response was not valid JSON, returning raw text. Parse error:",
                                     WS, parsed.msg>>)]

JsonResult(res) ==
    IF ~ res.success THEN res
    ELSE LET parsed == JsonLoads(FromFirstBrace(Unfence(res.content.v)))
         IN  IF parsed.ok
             THEN [success |-> TRUE,
                   content |-> parsed.value,
                   provider_used |-> RGet(res, "provider_used", None)]
             ELSE [success |-> TRUE,
                   content |-> res.content,
                   provider_used |-> RGet(res, "provider_used", None),
                   warning |-> Str(<<"Response was not valid JSON, returning raw text. Parse error:",
                                     WS, parsed.msg>>)]

-----------------------------------------------------------------------------
(* The cascade: LLMService.generate_with_fallback and its wrappers *)

EntryPoints ==
    {"generate_with_fallback", "generate_json_with_fallback", "generate", "generate_json"}

\* generate and generate_json only delegate: the function that runs
Delegate(e) ==
    CASE e = "generate" -> "generate_with_fallback"
      [] e = "generate_json" -> "generate_json_with_fallback"
      [] OTHER -> e

IsJsonEntry(e) == Delegate(e) = "generate_json_with_fallback"

\* The prompt generate_with_fallback receives from entry point e
CascadePrompt(e, p) == IF IsJsonEntry(e) THEN p \o JSON_INSTRUCTION ELSE p

\* Messages of exceptions that escape a provider method
EscapeMessages == {"Event loop is closed"}

\* What one awaited provider call does: the transport answers and the provider
\* method returns a dict, or an exception escapes the method
Events == Transports \cup [kind : {"raises"}, message : EscapeMessages]

\* No provider call has completed in this request
NoEvent == [kind |-> "none"]

GENERIC_ERROR == "AI services are temporarily busy. Please try again later."

\* d[key] = value on a result dict
SetItem(r, key, value) ==
    [k \in DOMAIN r \cup {key} |-> IF k = key THEN value ELSE r[k]]

\* The demo branch of generate_with_fallback
DemoResult(p) == SetItem(_get_demo_response(p), "provider_used", S("demo"))

\* A final return that reports only the latest failure
AllFailed_LatestOnly(errs) ==
    [success |-> FALSE,
     content |-> None,
     provider_used |-> None,
     error |-> S(GENERIC_ERROR),
     error_details |-> List(IF errs = <<>> THEN <<>> ELSE <<errs[Len(errs)]>>)]

\* The return after the loop: all providers failed
AllFailed(errs) ==
    [success |-> FALSE,
     content |-> None,
     provider_used |-> None,
     error |-> S(GENERIC_ERROR),
     error_details |-> List(errs)]

\* An iteration that goes on to the next provider after a success
TryProvider_KeepGoing(provider, ev) ==
    IF ev.kind = "raises"
    THEN [kind |-> "error", entry |-> Str(<<provider, ":", WS, ev.message>>)]
    ELSE LET res == CallProvider(provider, ev)
         IN  [kind |-> "error",
              entry |-> Str(<<provider, ":", WS>> \o RGet(res, "error", S("Unknown error")).v)]

\* An iteration that takes a reply that is not valid JSON for a failure of
\* the provider
TryProvider_JsonChecked(provider, ev) ==
    IF ev.kind = "raises"
    THEN [kind |-> "error", entry |-> Str(<<provider, ":", WS, ev.message>>)]
    ELSE LET res == CallProvider(provider, ev)
         IN  IF res.success /\ JsonLoads(FromFirstBrace(Unfence(res.content.v))).ok
             THEN [kind |-> "return", value |-> SetItem(res, "provider_used", S(provider))]
             ELSE [kind |-> "error",
                   entry |-> Str(<<provider, ":", WS>> \o RGet(res, "error", S("Invalid JSON")).v)]

\* One iteration of the for loop of generate_with_fallback: the try block
\* with its except clause. Gives the value to return, or the entry to append
\* to errors.
TryProvider(provider, ev) ==
    IF ev.kind = "raises"
    THEN [kind |-> "error", entry |-> Str(<<provider, ":", WS, ev.message>>)]
    ELSE LET res == CallProvider(provider, ev)
         IN  IF res.success
             THEN [kind |-> "return", value |-> SetItem(res, "provider_used", S(provider))]
             ELSE [kind |-> "error",
                   entry |-> Str(<<provider, ":", WS>> \o RGet(res, "error", S("Unknown error")).v)]

\* A loop that stays on the provider that has just failed
NextIndex_Retry(i) == i

\* The for loop moves on to the next provider of the list
NextIndex(i) == i + 1

\* What the entry point e returns when the cascade returns res
EntryReturn(e, res) == IF IsJsonEntry(e) THEN JsonResult(res) ELSE res

NoRequest ==
    /\ entry = "none"
    /\ prompt = <<>>
    /\ idx = 0
    /\ errors = <<>>
    /\ calls = <<>>
    /\ last = NoEvent
    /\ result = None
    /\ raised = FALSE

\* A list of str
Strs(seq) == List([i \in 1..Len(seq) |-> S(seq[i])])

\* CHANGE_PROPAGATION as the module routers/revision.py defines it
StartupPropagation ==
    Dict([feature |-> Strs(<<"features", "feasibility", "flow", "diagrams", "pitch",
                             "comparison">>),
          tech |-> Strs(<<"techStack", "architecture", "vivaGuide">>),
          scope |-> Strs(<<"summary", "features", "feasibility", "flow", "techStack",
                           "diagrams", "comparison", "vivaGuide", "pitch">>),
          wording |-> Strs(<<"summary", "pitch">>)])

\* No API request is served
AppOff ==
    /\ CHANGE_PROPAGATION = StartupPropagation
    /\ apc = "off"
    /\ endpoint = "none"
    /\ planned = None
    /\ response = None

NormIdle ==
    /\ npc = "off"
    /\ nraw = None
    /\ nout = None
    /\ nagain = None
    /\ nmap = None

\* The state after import: keys read from the environment, the singleton
\* llm_service constructed
Init ==
    /\ env \in [Providers -> KeyValues]
    /\ providers = _build_provider_list(env)
    /\ is_demo_mode = IS_DEMO_MODE(env)
    /\ pc = "idle"
    /\ NoRequest
    /\ NormIdle
    /\ AppOff

\* A caller invokes entry point e with prompt p while the service is in demo
\* mode: the canned result is returned without any await
StartDemo(e, p) ==
    /\ pc = "idle"
    /\ is_demo_mode
    /\ entry' = Delegate(e)
    /\ prompt' = p
    /\ result' = EntryReturn(e, DemoResult(CascadePrompt(e, p)))
    /\ pc' = "done"
    /\ UNCHANGED <<env, providers, is_demo_mode, idx, errors, calls, last, raised, normVars, appVars>>

\* A caller invokes entry point e with prompt p: the loop starts and suspends
\* at the first provider call (or falls through when the list is empty)
StartCascade(e, p) ==
    /\ pc = "idle"
    /\ ~ is_demo_mode
    /\ entry' = Delegate(e)
    /\ prompt' = p
    /\ errors' = <<>>
    /\ IF providers = <<>>
       THEN /\ result' = EntryReturn(e, AllFailed(<<>>))
            /\ pc' = "done"
            /\ idx' = 0
       ELSE /\ result' = None
            /\ pc' = "calling"
            /\ idx' = 1
    /\ UNCHANGED <<env, providers, is_demo_mode, calls, last, raised, normVars, appVars>>

\* The awaited call of providers[idx] completes with event ev and the loop
\* runs on to its next await or to its return
Attempt(ev) ==
    LET provider == providers[idx]
        step == TryProvider(provider, ev)
    IN  /\ pc = "calling"
        /\ calls' = Append(calls, provider)
        /\ last' = ev
        /\ CASE step.kind = "return" ->
                    /\ result' = EntryReturn(entry, step.value)
                    /\ pc' = "done"
                    /\ errors' = <<>>
                    /\ idx' = 0
                    /\ raised' = FALSE
             [] step.kind = "error" /\ idx < Len(providers) ->
                    /\ errors' = Append(errors, step.entry)
                    /\ idx' = NextIndex(idx)
                    /\ UNCHANGED <<pc, result, raised>>
             [] step.kind = "error" /\ idx = Len(providers) ->
                    /\ result' = EntryReturn(entry, AllFailed(Append(errors, step.entry)))
                    /\ pc' = "done"
                    /\ errors' = <<>>
                    /\ idx' = 0
                    /\ raised' = FALSE
             [] OTHER ->
                    /\ raised' = TRUE
                    /\ result' = None
                    /\ pc' = "done"
                    /\ errors' = <<>>
                    /\ idx' = 0
        /\ UNCHANGED <<env, providers, is_demo_mode, entry, prompt, normVars, appVars>>

IsSuccessEvent(ev) ==
    /\ ev.kind = "http" /\ ev.status = 200
    /\ ev.body.kind = "text" /\ ev.body.text # <<>>

SuccessEvents == {ev \in Transports : IsSuccessEvent(ev)}
FailureEvents == Transports \ SuccessEvents
RaiseEvents == Events \ Transports

\* The provider answers with non-empty text
ProviderSucceeds(ev) == Attempt(ev)

\* The provider answers, but not with text, or the transport fails
ProviderFails(ev) == Attempt(ev)

\* An exception escapes the provider method
ProviderRaises(ev) == Attempt(ev)

\* The caller takes the result; the service is ready for the next request
Deliver ==
    /\ pc = "done"
    /\ pc' = "idle"
    /\ entry' = "none"
    /\ prompt' = <<>>
    /\ idx' = 0
    /\ errors' = <<>>
    /\ calls' = <<>>
    /\ last' = NoEvent
    /\ result' = None
    /\ raised' = FALSE
    /\ UNCHANGED <<env, providers, is_demo_mode, normVars, appVars>>

Next ==
    \/ \E e \in EntryPoints, p \in Prompts : StartDemo(e, p)
    \/ \E e \in EntryPoints, p \in Prompts : StartCascade(e, p)
    \/ \E ev \in SuccessEvents : ProviderSucceeds(ev)
    \/ \E ev \in FailureEvents : ProviderFails(ev)
    \/ \E ev \in RaiseEvents : ProviderRaises(ev)
    \/ Deliver

Spec == Init /\ [][Next]_vars

-----------------------------------------------------------------------------
(* The normalizer: services/normalizer.py *)

\* A _safe_string that accepts any string, blank or not
_safe_string_AnyStr(value, default) == IF IsStr(value) THEN value ELSE default

\* _safe_string
_safe_string(value, default) ==
    IF Truthy(value) /\ IsStr(value) /\ Strip(value.v) # <<>>
    THEN Str(Strip(value.v))
    ELSE default

NOT_PROVIDED == S("Not provided by AI")

\* _safe_list
_safe_list(value, default) == IF IsList(value) THEN value ELSE default

\* if not isinstance(data, dict): data = {}
AsDict(data) == IF IsDict(data) THEN data ELSE EmptyDict

\* x = data.get(key, []); if not isinstance(x, list): x = []
ListAt(data, key) ==
    LET x == Get(data, key, List(<<>>))
    IN  IF IsList(x) THEN x.v ELSE <<>>

\* [op(x) for x in items if isinstance(x, dict)]
MapDicts(items, op(_)) ==
    LET dicts == SelectSeq(items, IsDict)
    IN  [i \in 1..Len(dicts) |-> op(dicts[i])]

\* _normalize_summary
_normalize_summary(raw) ==
    LET data == AsDict(raw)
    IN  Dict([
          problem_statement |-> _safe_string(Get(data, "problem_statement", None), NOT_PROVIDED),
          target_users |-> _safe_list(Get(data, "target_users", None), List(<<S("Users")>>)),
          objectives |-> _safe_list(Get(data, "objectives", None),
                                    List(<<S("Complete the project")>>)),
          scope |-> _safe_string(Get(data, "scope", None), S("Defined by project requirements")),
          what_this_means |-> _safe_string(Get(data, "what_this_means", None),
                                    S("This section explains your project's purpose")),
          why_this_matters |-> _safe_string(Get(data, "why_this_matters", None),
                                    S("Understanding this helps you explain your project clearly"))])

NormFeature(f) ==
    Dict([
      feature_name |-> _safe_string(Get(f, "feature_name", None), S("Feature")),
      what_it_does |-> _safe_string(Get(f, "what_it_does", None),
                                    S("Provides functionality to users")),
      why_it_exists |-> _safe_string(Get(f, "why_it_exists", None), S("Addresses a user need")),
      how_it_helps |-> _safe_string(Get(f, "how_it_helps", None), S("Improves user experience")),
      limitations |-> _safe_string(Get(f, "limitations", None), S("None specified"))])

DefaultFeatures ==
    <<Dict([
        feature_name |-> S("Core Feature"),
        what_it_does |-> S("Provides the main functionality"),
        why_it_exists |-> S("To solve the core problem"),
        how_it_helps |-> S("Delivers value to users"),
        limitations |-> S("Specific limitations depend on implementation")])>>

\* if not normalized: normalized = defaults
OrDefault(normalized, defaults) == IF normalized = <<>> THEN defaults ELSE normalized

\* _normalize_features
_normalize_features(raw) ==
    LET data == AsDict(raw)
        normalized_features == MapDicts(ListAt(data, "features"), NormFeature)
    IN  Dict([features |-> List(OrDefault(normalized_features, DefaultFeatures))])

FeasibilityLevels == {S("High"), S("Medium"), S("Low")}

\* A _normalize_feasibility that keeps whatever level it finds
_normalize_feasibility_AnyLevel(raw) ==
    LET data == AsDict(raw)
    IN  Dict([
          feasibility_level |-> Get(data, "feasibility_level", S("Medium")),
          feasibility_explanation |-> _safe_string(Get(data, "feasibility_explanation", None),
                                    S("This project is achievable for a college student")),
          strengths |-> _safe_list(Get(data, "strengths", None),
                                   List(<<S("Good educational value")>>)),
          risks |-> _safe_list(Get(data, "risks", None),
                               List(<<S("Time management is important")>>)),
          why_this_matters |-> _safe_string(Get(data, "why_this_matters", None),
                                    S("Knowing feasibility helps you plan realistically"))])

\* _normalize_feasibility
_normalize_feasibility(raw) ==
    LET data == AsDict(raw)
        level == Get(data, "feasibility_level", S("Medium"))
    IN  Dict([
          feasibility_level |-> IF level \notin FeasibilityLevels THEN S("Medium") ELSE level,
          feasibility_explanation |-> _safe_string(Get(data, "feasibility_explanation", None),
                                    S("This project is achievable for a college student")),
          strengths |-> _safe_list(Get(data, "strengths", None),
                                   List(<<S("Good educational value")>>)),
          risks |-> _safe_list(Get(data, "risks", None),
                               List(<<S("Time management is important")>>)),
          why_this_matters |-> _safe_string(Get(data, "why_this_matters", None),
                                    S("Knowing feasibility helps you plan realistically"))])

\* The dict built for step, found at 0-based index i - 1 of steps
NormStep(step, i) ==
    Dict([
      step_number |-> Get(step, "step_number", Num(i)),
      actor |-> _safe_string(Get(step, "actor", None), S("User")),
      action |-> _safe_string(Get(step, "action", None), S("Performs action")),
      explanation |-> _safe_string(Get(step, "explanation", None), S("Part of the workflow"))])

\* for i, step in enumerate(steps): if isinstance(step, dict): append(...)
RECURSIVE NormSteps(_, _)
NormSteps(steps, i) ==
    IF i > Len(steps) THEN <<>>
    ELSE (IF IsDict(steps[i]) THEN <<NormStep(steps[i], i)>> ELSE <<>>)
         \o NormSteps(steps, i + 1)

FlowStep(n, actor, action, explanation) ==
    Dict([step_number |-> Num(n), actor |-> S(actor), action |-> S(action),
          explanation |-> S(explanation)])

DefaultSteps ==
    <<FlowStep(1, "User", "Opens application", "Entry point"),
      FlowStep(2, "System", "Processes request", "Core processing"),
      FlowStep(3, "System", "Returns result", "Output to user")>>

\* _normalize_system_flow
_normalize_system_flow(raw) ==
    LET data == AsDict(raw)
        normalized_steps == NormSteps(ListAt(data, "steps"), 1)
    IN  Dict([
          flow_title |-> _safe_string(Get(data, "flow_title", None), S("System Flow")),
          steps |-> List(OrDefault(normalized_steps, DefaultSteps)),
          summary |-> _safe_string(Get(data, "summary", None),
                        S("This flow shows how users interact with the system"))])

NormPrimary(item) ==
    Dict([
      category |-> _safe_string(Get(item, "category", None), S("General")),
      technology |-> _safe_string(Get(item, "technology", None), S("Technology")),
      justification |-> _safe_string(Get(item, "justification", None),
                                     S("Suitable for this project")),
      skill_level |-> _safe_string(Get(item, "skill_level", None), S("Beginner-friendly"))])

NormBackup(item) ==
    Dict([
      category |-> _safe_string(Get(item, "category", None), S("General")),
      technology |-> _safe_string(Get(item, "technology", None), S("Alternative")),
      why_backup |-> _safe_string(Get(item, "why_backup", None),
                                  S("Alternative option if needed"))])

StackItem(category, technology, justification) ==
    Dict([category |-> S(category), technology |-> S(technology),
          justification |-> S(justification), skill_level |-> S("Beginner-friendly")])

\* A default primary stack of one entry
DefaultPrimary_FrontendOnly ==
    <<StackItem("Frontend", "HTML/CSS/JavaScript", "Universal web technologies")>>

DefaultPrimary ==
    <<StackItem("Frontend", "HTML/CSS/JavaScript", "Universal web technologies"),
      StackItem("Backend", "Python or Node.js", "Common choices for web apps"),
      StackItem("Database", "MySQL or MongoDB", "Well-documented options")>>

\* _normalize_tech_stack
_normalize_tech_stack(raw) ==
    LET data == AsDict(raw)
        normalized_primary == MapDicts(ListAt(data, "primary_stack"), NormPrimary)
        normalized_backup == MapDicts(ListAt(data, "backup_stack"), NormBackup)
    IN  Dict([
          primary_stack |-> List(OrDefault(normalized_primary, DefaultPrimary)),
          backup_stack |-> List(normalized_backup)])

NormSolution(sol) ==
    Dict([
      solution_name |-> _safe_string(Get(sol, "solution_name", None), S("Existing Solution")),
      what_it_does |-> _safe_string(Get(sol, "what_it_does", None),
                                    S("Provides similar functionality")),
      limitations |-> _safe_string(Get(sol, "limitations", None),
                                   S("May not fit specific needs"))])

\* _normalize_comparison
_normalize_comparison(raw) ==
    LET data == AsDict(raw)
        normalized_solutions == MapDicts(ListAt(data, "existing_solutions"), NormSolution)
    IN  Dict([
          existing_solutions |-> List(normalized_solutions),
          unique_aspects |-> _safe_list(Get(data, "unique_aspects", None),
                                List(<<S("Custom solution for specific needs")>>)),
          why_this_project_is_still_valuable |-> _safe_list(
                Or(Get(data, "why_this_project_is_still_valuable", None),
                   Get(data, "why_still_valuable", None)),
                List(<<S("Learning experience"), S("Tailored to specific requirements")>>)),
          summary_insight |-> _safe_string(Get(data, "summary_insight", None),
                S("Even though similar systems exist, this project provides valuable learning and customization opportunities."))])

NormCommon(qn) ==
    Dict([
      question |-> _safe_string(Get(qn, "question", None), S("Question")),
      suggested_answer |-> _safe_string(Get(qn, "suggested_answer", None),
                                        S("Provide a clear, concise answer")),
      why_asked |-> _safe_string(Get(qn, "why_asked", None), S("To assess your understanding"))])

NormHackathon(qn) ==
    Dict([
      question |-> _safe_string(Get(qn, "question", None), S("Question")),
      suggested_response |-> _safe_string(Get(qn, "suggested_response", None),
                                          S("Provide a confident response")),
      key_points |-> _safe_list(Get(qn, "key_points", None),
                                List(<<S("Focus on value delivered")>>))])

DefaultCommon ==
    <<Dict([question |-> S("Why did you choose this project?"),
            suggested_answer |-> S("It solves a real problem I observed"),
            why_asked |-> S("Tests motivation")]),
      Dict([question |-> S("What challenges did you face?"),
            suggested_answer |-> S("Learning new technologies and time management"),
            why_asked |-> S("Tests problem-solving")])>>

DefaultHackathon ==
    <<Dict([question |-> S("What makes this unique?"),
            suggested_response |-> S("Tailored to specific user needs"),
            key_points |-> List(<<S("User focus"), S("Practical value")>>)])>>

\* _normalize_viva
_normalize_viva(raw) ==
    LET data == AsDict(raw)
        normalized_common == MapDicts(ListAt(data, "common_questions"), NormCommon)
        normalized_hackathon == MapDicts(ListAt(data, "hackathon_questions"), NormHackathon)
    IN  Dict([
          project_overview_explanation |->
              _safe_string(Get(data, "project_overview_explanation", None),
                S("This project solves a real problem using modern technology")),
          problem_statement_explanation |->
              _safe_string(Get(data, "problem_statement_explanation", None),
                S("The problem affects users in their daily workflow")),
          architecture_explanation |->
              _safe_string(Get(data, "architecture_explanation", None),
                S("The system uses a standard three-tier architecture")),
          unique_feature_explanation |->
              _safe_string(Get(data, "unique_feature_explanation", None),
                S("What makes this project special is its focus on the user experience")),
          common_questions |-> List(OrDefault(normalized_common, DefaultCommon)),
          hackathon_questions |-> List(OrDefault(normalized_hackathon, DefaultHackathon))])

\* _normalize_pitch
_normalize_pitch(raw) ==
    LET data == AsDict(raw)
    IN  Dict([
          thirty_second_pitch |-> _safe_string(Get(data, "thirty_second_pitch", None),
                S("This project solves a real problem by providing an efficient digital solution. It saves time, reduces errors, and improves the user experience.")),
          one_minute_pitch |-> _safe_string(Get(data, "one_minute_pitch", None),
                S("Every day, users face challenges with manual processes. This project automates those processes, providing a faster, more reliable solution. Built with modern technologies, it's designed to be user-friendly and scalable. The system is ideal for educational or organizational settings where efficiency matters.")),
          key_points |-> _safe_list(Get(data, "key_points", None),
                List(<<S("Solves real problem"), S("Saves time"), S("User-friendly")>>))])

\* default_user_flow: the chunk flowchart, whitespace, the rest of the diagram
DefaultUserFlow == Str(<<"flowchart", WS, "TD\n    A[User Opens App] --> B{Login Required?}\n    B -->|Yes| C[Login Page]\n    B -->|No| D[Dashboard]\n    C --> E[Enter Credentials]\n    E --> F{Valid?}\n    F -->|No| C\n    F -->|Yes| D\n    D --> G[Use Features]\n    G --> H[Complete Task]">>)

\* default_tech_stack
DefaultTechStackDiagram == Str(<<"flowchart", WS, "LR\n    subgraph Frontend\n        A[Web Interface]\n    end\n    subgraph Backend\n        B[API Server]\n    end\n    subgraph Database\n        C[(Data Storage)]\n    end\n    A -->|HTTP| B\n    B -->|Queries| C">>)

\* _normalize_diagrams
_normalize_diagrams(raw) ==
    LET data == AsDict(raw)
    IN  Dict([
          user_flow_mermaid |-> _safe_string(Get(data, "user_flow_mermaid", None),
                                             DefaultUserFlow),
          tech_stack_mermaid |-> _safe_string(Get(data, "tech_stack_mermaid", None),
                                              DefaultTechStackDiagram)])

\* get_fallback_blueprint
get_fallback_blueprint ==
    Dict([
      summary |-> _normalize_summary(EmptyDict),
      features |-> _normalize_features(EmptyDict),
      feasibility |-> _normalize_feasibility(EmptyDict),
      system_flow |-> _normalize_system_flow(EmptyDict),
      tech_stack |-> _normalize_tech_stack(EmptyDict),
      comparison |-> _normalize_comparison(EmptyDict),
      viva |-> _normalize_viva(EmptyDict),
      pitch |-> _normalize_pitch(EmptyDict),
      diagrams |-> _normalize_diagrams(EmptyDict)])

\* normalize_blueprint
normalize_blueprint(raw) ==
    IF ~ Truthy(raw) \/ ~ IsDict(raw) THEN get_fallback_blueprint
    ELSE Dict([
           summary |-> _normalize_summary(Get(raw, "summary", EmptyDict)),
           features |-> _normalize_features(Get(raw, "features", EmptyDict)),
           feasibility |-> _normalize_feasibility(Get(raw, "feasibility", EmptyDict)),
           system_flow |-> _normalize_system_flow(Get(raw, "system_flow", EmptyDict)),
           tech_stack |-> _normalize_tech_stack(Get(raw, "tech_stack", EmptyDict)),
           comparison |-> _normalize_comparison(Get(raw, "comparison", EmptyDict)),
           viva |-> _normalize_viva(Get(raw, "viva", EmptyDict)),
           pitch |-> _normalize_pitch(Get(raw, "pitch", EmptyDict)),
           diagrams |-> _normalize_diagrams(Get(raw, "diagrams", EmptyDict))])

-----------------------------------------------------------------------------
(* map_to_frontend_format *)

\* x[key]: the value, or the exception the subscript raises
Index(x, key) ==
    IF ~ IsDict(x) THEN [ok |-> FALSE, exc |-> "TypeError"]
    ELSE IF key \notin DOMAIN x.v THEN [ok |-> FALSE, exc |-> "KeyError"]
    ELSE [ok |-> TRUE, value |-> x.v[key]]

\* x[path[1]] or x[path[1]][path[2]]
Lookup(x, path) ==
    LET a == Index(x, path[1])
    IN  IF Len(path) = 1 \/ ~ a.ok THEN a ELSE Index(a.value, path[2])

\* The subscripts of the dict display of map_to_frontend_format, in the
\* order they are evaluated
MapPaths ==
    <<<<"summary", "problem_statement">>, <<"summary", "target_users">>,
      <<"summary", "objectives">>, <<"summary", "scope">>,
      <<"summary", "what_this_means">>, <<"summary", "why_this_matters">>,
      <<"feasibility">>, <<"features">>, <<"system_flow">>,
      <<"tech_stack", "primary_stack">>, <<"tech_stack", "primary_stack">>,
      <<"tech_stack", "backup_stack">>, <<"comparison">>,
      <<"viva", "project_overview_explanation">>,
      <<"viva", "problem_statement_explanation">>,
      <<"viva", "architecture_explanation">>,
      <<"viva", "unique_feature_explanation">>,
      <<"viva", "common_questions">>, <<"viva", "common_questions">>,
      <<"viva", "hackathon_questions">>, <<"pitch">>,
      <<"diagrams", "user_flow_mermaid">>, <<"diagrams", "tech_stack_mermaid">>>>

\* normalized[sec][key] where the subscripts are known to succeed
At(normalized, sec, key) == normalized.v[sec].v[key]

\* A hackathonViva entry that repeats the common questions
HackathonViva_CommonOnly(normalized) ==
    Dict([viva_questions |-> At(normalized, "viva", "common_questions"),
          hackathon_questions |-> At(normalized, "viva", "common_questions")])

\* The hackathonViva entry
HackathonViva(normalized) ==
    Dict([viva_questions |-> At(normalized, "viva", "common_questions"),
          hackathon_questions |-> At(normalized, "viva", "hackathon_questions")])

\* map_to_frontend_format: the dict returned, or the exception raised by the
\* first subscript that fails
map_to_frontend_format(normalized) ==
    LET failing == {i \in 1..Len(MapPaths) : ~ Lookup(normalized, MapPaths[i]).ok}
        first == CHOOSE i \in failing : \A j \in failing : i <= j
    IN  IF failing # {}
        THEN [raised |-> TRUE, exc |-> Lookup(normalized, MapPaths[first]).exc]
        ELSE [raised |-> FALSE,
              value |-> Dict([
                expandedIdea |-> Dict([
                    problem_statement |-> At(normalized, "summary", "problem_statement"),
                    target_users |-> At(normalized, "summary", "target_users"),
                    objectives |-> At(normalized, "summary", "objectives"),
                    scope |-> At(normalized, "summary", "scope"),
                    what_this_means |-> At(normalized, "summary", "what_this_means"),
                    why_this_matters |-> At(normalized, "summary", "why_this_matters")]),
                evaluation |-> normalized.v["feasibility"],
                featuresDetailed |-> normalized.v["features"],
                systemFlow |-> normalized.v["system_flow"],
                techStack |-> At(normalized, "tech_stack", "primary_stack"),
                techStackExtended |-> Dict([
                    primary_stack |-> At(normalized, "tech_stack", "primary_stack"),
                    alternatives |-> At(normalized, "tech_stack", "backup_stack")]),
                comparison |-> normalized.v["comparison"],
                vivaGuide |-> Dict([
                    project_overview_explanation |->
                        At(normalized, "viva", "project_overview_explanation"),
                    problem_statement_explanation |->
                        At(normalized, "viva", "problem_statement_explanation"),
                    architecture_explanation |->
                        At(normalized, "viva", "architecture_explanation"),
                    unique_feature_explanation |->
                        At(normalized, "viva", "unique_feature_explanation"),
                    common_questions |-> At(normalized, "viva", "common_questions")]),
                hackathonViva |-> HackathonViva(normalized),
                pitch |-> normalized.v["pitch"],
                userFlowMermaid |-> At(normalized, "diagrams", "user_flow_mermaid"),
                techStackMermaid |-> At(normalized, "diagrams", "tech_stack_mermaid")])]

-----------------------------------------------------------------------------
(* Raw blueprints handed to the normalizer *)

MaxFields == 1

\* Values of the wrong or right type found where a string or a list is
\* expected: null, a number, empty and blank strings, a padded string,
\* an empty and a non-empty list, an object
Scalars ==
    {None, Num(7), Str(<<>>), Str(<<WS>>), Str(<<WS, "text", WS>>),
     List(<<>>), List(<<S("item")>>), EmptyDict}

\* All dicts over the keys K, the value of key k drawn from vals[k]
RECURSIVE DictsOver(_, _)
DictsOver(K, vals) ==
    IF K = {} THEN {<<>>}
    ELSE LET k == CHOOSE x \in K : TRUE
         IN  {(k :> v) @@ d : v \in vals[k], d \in DictsOver(K \ {k}, vals)}

\* All dicts with at most n of the keys of vals
DictsUpTo(vals, n) ==
    UNION {DictsOver(K, vals) : K \in {X \in SUBSET DOMAIN vals : Cardinality(X) <= n}}

\* The elements of a list of records: a record with no field or one field
Elements(vals) ==
    {Dict(<<>>)} \cup UNION {{Dict(k :> v) : v \in vals[k]} : k \in DOMAIN vals}

\* The values found where a list of records is expected
RecordLists(vals) ==
    Scalars
    \cup {List(<<e>>) : e \in Elements(vals)}
    \cup {List(<<S("junk"), e>>) : e \in Elements(vals)}

AllScalars(keys) == [k \in keys |-> Scalars]

FeatureVals ==
    AllScalars({"feature_name", "what_it_does", "why_it_exists", "how_it_helps", "limitations"})
StepVals ==
    [step_number |-> Scalars \cup {Num(5), S("two")}]
    @@ AllScalars({"actor", "action", "explanation"})
PrimaryVals == AllScalars({"category", "technology", "justification", "skill_level"})
BackupVals == AllScalars({"category", "technology", "why_backup"})
SolutionVals == AllScalars({"solution_name", "what_it_does", "limitations"})
CommonVals == AllScalars({"question", "suggested_answer", "why_asked"})
HackathonVals == AllScalars({"question", "suggested_response", "key_points"})

Sections ==
    {"summary", "features", "feasibility", "system_flow", "tech_stack",
     "comparison", "viva", "pitch", "diagrams"}

\* For each section, the raw values each of its keys takes
SectionVals(sec) ==
    CASE sec = "summary" ->
            AllScalars({"problem_statement", "target_users", "objectives", "scope",
                        "what_this_means", "why_this_matters"})
      [] sec = "features" -> [features |-> RecordLists(FeatureVals)]
      [] sec = "feasibility" ->
            [feasibility_level |->
                Scalars \cup FeasibilityLevels
                \cup {S("Nonsense"), S("high"), Str(<<WS, "High">>)}]
            @@ AllScalars({"feasibility_explanation", "strengths", "risks",
                           "why_this_matters"})
      [] sec = "system_flow" ->
            [steps |-> RecordLists(StepVals)] @@ AllScalars({"flow_title", "summary"})
      [] sec = "tech_stack" ->
            [primary_stack |-> RecordLists(PrimaryVals),
             backup_stack |-> RecordLists(BackupVals)]
      [] sec = "comparison" ->
            [existing_solutions |-> RecordLists(SolutionVals)]
            @@ AllScalars({"unique_aspects", "why_this_project_is_still_valuable",
                           "why_still_valuable", "summary_insight"})
      [] sec = "viva" ->
            [common_questions |-> RecordLists(CommonVals),
             hackathon_questions |-> RecordLists(HackathonVals)]
            @@ AllScalars({"project_overview_explanation", "problem_statement_explanation",
                           "architecture_explanation", "unique_feature_explanation"})
      [] sec = "pitch" ->
            AllScalars({"thirty_second_pitch", "one_minute_pitch", "key_points"})
      [] sec = "diagrams" -> AllScalars({"user_flow_mermaid", "tech_stack_mermaid"})

\* The raw values of one section: not a dict, or a dict of up to MaxFields keys
SectionRaws(sec) ==
    Scalars \cup {S("not a dict")}
    \cup {Dict(d) : d \in DictsUpTo(SectionVals(sec), MaxFields)}

\* The raw values handed to normalize_blueprint: not a dict, an empty dict,
\* a dict with an unknown key only, a dict with one of the nine sections
RawBlueprints ==
    Scalars
    \cup {Dict([title |-> S("text")])}
    \cup UNION {{Dict(sec :> x) : x \in SectionRaws(sec)} : sec \in Sections}

-----------------------------------------------------------------------------
(* The normalizer called on a raw blueprint, then on its own output *)

CascadeIdle ==
    /\ env = [p \in Providers |-> <<>>]
    /\ providers = <<>>
    /\ is_demo_mode = TRUE
    /\ pc = "idle"
    /\ NoRequest

InitNorm ==
    /\ CascadeIdle
    /\ AppOff
    /\ npc = "input"
    /\ nraw \in RawBlueprints
    /\ nout = None
    /\ nagain = None
    /\ nmap = None

\* normalize_blueprint(raw)
Normalize ==
    /\ npc = "input"
    /\ nout' = normalize_blueprint(nraw)
    /\ npc' = "normalized"
    /\ UNCHANGED <<nraw, nagain, nmap, cascadeVars, appVars>>

\* normalize_blueprint applied to a normalized blueprint
Renormalize ==
    /\ npc = "normalized"
    /\ nagain' = normalize_blueprint(nout)
    /\ npc' = "renormalized"
    /\ UNCHANGED <<nraw, nout, nmap, cascadeVars, appVars>>

\* map_to_frontend_format applied to the output of normalize_blueprint
MapNormalized ==
    /\ npc = "normalized"
    /\ nmap' = map_to_frontend_format(nout)
    /\ npc' = "mapped"
    /\ UNCHANGED <<nraw, nout, nagain, cascadeVars, appVars>>

\* map_to_frontend_format applied to a blueprint that was not normalized
MapRaw ==
    /\ npc = "input"
    /\ nmap' = map_to_frontend_format(nraw)
    /\ npc' = "mapped_raw"
    /\ UNCHANGED <<nraw, nout, nagain, cascadeVars, appVars>>

NextNorm == Normalize \/ Renormalize \/ MapNormalized \/ MapRaw

SpecNorm == InitNorm /\ [][NextNorm]_vars

-----------------------------------------------------------------------------
(* Properties of the cascade, checked under Spec *)

Returned == pc = "done" /\ ~ raised

\* The latest provider call answered with text
LastSucceeded == last # NoEvent /\ last \in SuccessEvents

\* The provider called latest
LastCalled == calls[Len(calls)]

\* The failure reason the cascade must record for provider p after event ev
ReasonOf(p, ev) ==
    IF ev.kind = "raises" THEN <<ev.message>> ELSE CallProvider(p, ev).error.v

EntryOf(p, ev) == Str(<<p, ":", WS>> \o ReasonOf(p, ev))

\* Position of provider p in the fixed priority order
OrderIndex(p) == CHOOSE i \in 1..Len(PROVIDER_ORDER) : PROVIDER_ORDER[i] = p

C2_FailFast ==
    LastSucceeded =>
        /\ Returned
        /\ result.success
        /\ result.provider_used = S(LastCalled)
        /\ entry = "generate_with_fallback" => result.content = Str(last.body.text)

C2_Witness ==
    /\ Returned
    /\ LastSucceeded
    /\ Len(providers) = 3
    /\ calls = <<"gemini">>
    /\ entry = "generate_with_fallback"

\* C3: when every configured provider fails, the result is a failure with the
\* fixed sentence and one error_details entry per attempted provider, in
\* attempt order, each naming its provider and carrying its failure reason.
C3_FailureShape ==
    (Returned /\ ~ is_demo_mode /\ ~ result.success) =>
        /\ result.error = S(GENERIC_ERROR)
        /\ calls = providers
        /\ IsList(result.error_details)
        /\ Len(result.error_details.v) = Len(calls)
        /\ \A i \in 1..Len(calls) : result.error_details.v[i].v[1] = calls[i]
        /\ result.error_details.v[Len(calls)] = EntryOf(LastCalled, last)

\* Each failed call appends its own entry and leaves the earlier ones alone
C3_FailureStep ==
    (pc = "calling" /\ calls' # calls) =>
        \/ pc' = "calling" /\ errors' = Append(errors, EntryOf(providers[idx], last'))
        \/ pc' = "done" /\ result'.success
        \/ /\ pc' = "done"
           /\ ~ result'.success
           /\ result'.error_details = List(Append(errors, EntryOf(providers[idx], last')))

C3_TotalFailure == [] C3_FailureShape /\ [][C3_FailureStep]_vars

C3_Witness ==
    /\ Returned
    /\ ~ result.success
    /\ calls = <<"gemini", "groq", "openrouter">>
    /\ result.error_details.v[1] = Str(<<"gemini", ":", WS, "Rate limited (429)">>)
    /\ result.error_details.v[2] = Str(<<"groq", ":", WS, "Event loop is closed">>)
    /\ result.error_details.v[3] = Str(<<"openrouter", ":", WS, "Payment required (402)">>)

NoValidKey == \A p \in Providers : ~ _has_valid_key(env[p])

\* C4: with no validly configured credential no provider is ever called and
\* every entry point returns success tagged provider_used = demo, whatever
\* the prompt.
C4_DemoMode ==
    NoValidKey =>
        /\ calls = <<>>
        /\ pc # "calling"
        /\ pc = "done" => /\ ~ raised
                          /\ result.success
                          /\ result.provider_used = S("demo")

C4_Witness ==
    /\ NoValidKey
    /\ env["gemini"] = PLACEHOLDER_KEY
    /\ env["groq"] = <<WS>>
    /\ pc = "done"
    /\ entry = "generate_json_with_fallback"
    /\ result.provider_used = S("demo")

\* C5: within one request each provider endpoint is called at most once.
C5_AtMostOnce ==
    \A i, j \in 1..Len(calls) : i # j => calls[i] # calls[j]

C5_Witness ==
    /\ Returned
    /\ ~ result.success
    /\ entry = "generate_json_with_fallback"
    /\ calls = <<"gemini", "groq", "openrouter">>

\* C6: generate_with_fallback returns and never raises; the result is a
\* Success with non-empty text attributed to the one provider that answered
\* (the provider called latest, or demo when none was called), or a Failure
\* with content None and provider_used None.
C6_OneResult ==
    (pc = "done" /\ entry = "generate_with_fallback") =>
        /\ ~ raised
        /\ result.success =>
              /\ IsStr(result.content)
              /\ result.content.v # <<>>
              /\ IF calls = <<>>
                 THEN result.provider_used = S("demo")
                 ELSE LastSucceeded /\ result.provider_used = S(LastCalled)
        /\ ~ result.success =>
              /\ result.content = None
              /\ result.provider_used = None

C6_Witness ==
    /\ Returned
    /\ entry = "generate_with_fallback"
    /\ result.success
    /\ calls = <<"groq", "openrouter">>
    /\ result.provider_used = S("openrouter")

\* What generate_json_with_fallback tries to parse out of text
Stripped(text) == FromFirstBrace(Unfence(text))

\* C10: when the provider answered with text that does not parse as JSON
\* after stripping, generate_json_with_fallback returns success with the raw
\* text as content, a warning, and the provider of the cascade result; a
\* provider Success is never turned into a failure and nothing is raised.
C10_RawOnParseFailure ==
    (pc = "done" /\ entry = "generate_json_with_fallback" /\ LastSucceeded) =>
        /\ ~ raised
        /\ result.success
        /\ result.provider_used = S(LastCalled)
        /\ ~ JsonLoads(Stripped(last.body.text)).ok =>
              /\ result.content = Str(last.body.text)
              /\ "warning" \in DOMAIN result

C10_Witness ==
    /\ Returned
    /\ entry = "generate_json_with_fallback"
    /\ LastSucceeded
    /\ "warning" \in DOMAIN result
    /\ Stripped(last.body.text) # last.body.text
    /\ Stripped(last.body.text) # <<>>
    /\ result.content = Str(last.body.text)

-----------------------------------------------------------------------------
(* Properties of the normalizer, checked under SpecNorm *)

\* normalize_blueprint has returned nout
Normalized == npc \in {"normalized", "renormalized", "mapped"}

\* The keys of each normalized section, by kind: strings, plain lists, and
\* lists of records
StringFields ==
    [summary |-> {"problem_statement", "scope", "what_this_means", "why_this_matters"},
     features |-> {},
     feasibility |-> {"feasibility_level", "feasibility_explanation", "why_this_matters"},
     system_flow |-> {"flow_title", "summary"},
     tech_stack |-> {},
     comparison |-> {"summary_insight"},
     viva |-> {"project_overview_explanation", "problem_statement_explanation",
               "architecture_explanation", "unique_feature_explanation"},
     pitch |-> {"thirty_second_pitch", "one_minute_pitch"},
     diagrams |-> {"user_flow_mermaid", "tech_stack_mermaid"}]

ListFields ==
    [summary |-> {"target_users", "objectives"},
     features |-> {},
     feasibility |-> {"strengths", "risks"},
     system_flow |-> {},
     tech_stack |-> {},
     comparison |-> {"unique_aspects", "why_this_project_is_still_valuable"},
     viva |-> {},
     pitch |-> {"key_points"},
     diagrams |-> {}]

RecordFields ==
    [summary |-> {},
     features |-> {"features"},
     feasibility |-> {},
     system_flow |-> {"steps"},
     tech_stack |-> {"primary_stack", "backup_stack"},
     comparison |-> {"existing_solutions"},
     viva |-> {"common_questions", "hackathon_questions"},
     pitch |-> {},
     diagrams |-> {}]

\* The string keys of a record of each list of records
ElementStrings ==
    [features |-> {"feature_name", "what_it_does", "why_it_exists", "how_it_helps",
                   "limitations"},
     steps |-> {"actor", "action", "explanation"},
     primary_stack |-> {"category", "technology", "justification", "skill_level"},
     backup_stack |-> {"category", "technology", "why_backup"},
     existing_solutions |-> {"solution_name", "what_it_does", "limitations"},
     common_questions |-> {"question", "suggested_answer", "why_asked"},
     hackathon_questions |-> {"question", "suggested_response"}]

\* The other keys of a record of each list of records
ElementOthers ==
    [features |-> {},
     steps |-> {"step_number"},
     primary_stack |-> {},
     backup_stack |-> {},
     existing_solutions |-> {},
     common_questions |-> {},
     hackathon_questions |-> {"key_points"}]

NonEmptyStr(x) == IsStr(x) /\ x.v # <<>>

\* x is a record of the list of records f with all its keys, the string ones
\* non-empty strings
ElementComplete(f, x) ==
    /\ IsDict(x)
    /\ DOMAIN x.v = ElementStrings[f] \cup ElementOthers[f]
    /\ \A k \in ElementStrings[f] : NonEmptyStr(x.v[k])

\* d is section sec with all its keys, the string ones non-empty strings
SectionComplete(sec, d) ==
    /\ IsDict(d)
    /\ DOMAIN d.v = StringFields[sec] \cup ListFields[sec] \cup RecordFields[sec]
    /\ \A k \in StringFields[sec] : NonEmptyStr(d.v[k])
    /\ \A k \in ListFields[sec] \cup RecordFields[sec] : IsList(d.v[k])
    /\ \A k \in RecordFields[sec] :
          \A i \in 1..Len(d.v[k].v) : ElementComplete(k, d.v[k].v[i])

BlueprintComplete(b) ==
    /\ IsDict(b)
    /\ DOMAIN b.v = Sections
    /\ \A sec \in Sections : SectionComplete(sec, b.v[sec])

\* C7: for any input, normalize_blueprint returns a dict with all nine
\* sections, each with every field of its schema and every string field a
\* non-empty string.
C7_NormalizeTotal == Normalized => BlueprintComplete(nout)

C7_Witness ==
    /\ npc = "normalized"
    /\ nraw = Dict([viva |-> Dict([common_questions |->
                       List(<<Dict([question |-> Str(<<WS>>)])>>)])])
    /\ nout.v["viva"].v["common_questions"].v[1].v["question"] = S("Question")
    /\ nout.v["summary"].v["problem_statement"] = NOT_PROVIDED

\* C8: normalize_blueprint is idempotent: applied to its own output it
\* returns that output unchanged.
C8_Idempotent == npc = "renormalized" => nagain = nout

\* The inputs of the fallback scenario
FallbackInputs ==
    {None,
     EmptyDict,
     Dict([summary |-> S("not a dict")]),
     Dict([feasibility |-> Dict([feasibility_level |-> S("Nonsense")])])}

\* Every list of section d holds at least one item
ListsFilled(sec, d) ==
    \A k \in ListFields[sec] \cup RecordFields[sec] : d.v[k].v # <<>>

\* C9: for the inputs None, {}, {summary: not a dict} and
\* {feasibility: {feasibility_level: Nonsense}} the result has all nine
\* sections with every field, string or list, present and non-empty, and
\* feasibility_level is one of High, Medium, Low (Nonsense gives Medium).
C9_Fallbacks ==
    (Normalized /\ nraw \in FallbackInputs) =>
        /\ BlueprintComplete(nout)
        /\ \A sec \in Sections : ListsFilled(sec, nout.v[sec])
        /\ nout.v["feasibility"].v["feasibility_level"] \in FeasibilityLevels
        /\ nraw = Dict([feasibility |-> Dict([feasibility_level |-> S("Nonsense")])])
              => nout.v["feasibility"].v["feasibility_level"] = S("Medium")

-----------------------------------------------------------------------------
(* Properties of JSON extraction and of the provider calls, checked under Spec *)

\* The latest provider call answered with object o wrapped in w
AnsweredWrapped(w, o) ==
    /\ pc = "done"
    /\ entry = "generate_json_with_fallback"
    /\ LastSucceeded
    /\ last.body.text = Wrap(w, o)

\* C11: when the provider's text is a JSON object wrapped in a json or plain
\* code fence and/or preceded by prose, generate_json_with_fallback returns
\* success with the parsed object as content and no warning.
C11_WrappedJsonParsed ==
    \A w \in Wrappings, o \in JsonObjects :
        AnsweredWrapped(w, o) =>
            /\ ~ raised
            /\ result.success
            /\ result.content = o.value
            /\ "warning" \notin DOMAIN result

\* The latest call went through a provider method, which returned a dict
LastReturned == last \in Transports

\* The latest call was answered with text
Answered == pc = "done" /\ ~ raised /\ result.success /\ calls # <<>>

\* The failure reason recorded for the latest call
LastReason ==
    LET e == IF pc = "calling" THEN errors[Len(errors)]
             ELSE result.error_details.v[Len(calls)]
    IN  SubSeq(e.v, 4, Len(e.v))

RateLimitReasons == {<<"Rate limited (429)">>, <<"DeepSeek quota exceeded (429)">>}

\* C12: each provider call maps its transport outcome to one category: 429
\* gives a rate-limit reason that no other outcome gives, 401 and 403 give
\* authentication failed, 402 on openrouter gives payment required, any other
\* status but 200 gives HTTP and the status, a timeout gives Timeout, any
\* other transport exception gives its message, and only 200 with non-empty
\* text gives Success.
C12_Taxonomy ==
    LastReturned =>
        /\ Answered <=> IsSuccessEvent(last)
        /\ ~ Answered =>
              /\ LastReason \in RateLimitReasons
                    <=> (last.kind = "http" /\ last.status = 429)
              /\ last.kind = "timeout" => LastReason = <<"Timeout">>
              /\ last.kind = "exception" => LastReason = <<last.message>>
              /\ (last.kind = "http" /\ last.status \in {401, 403}) =>
                    LastReason = <<"Authentication failed (", ToString(last.status), ")">>
              /\ (last.kind = "http" /\ last.status = 402 /\ LastCalled = "openrouter") =>
                    LastReason = <<"Payment required (402)">>
              /\ (last.kind = "http" /\ last.status \notin {200, 429, 401, 403}
                    /\ ~ (last.status = 402 /\ LastCalled = "openrouter")) =>
                    LastReason = <<"HTTP ", ToString(last.status)>>

C12_Witness ==
    /\ pc = "done"
    /\ calls = <<"gemini", "groq", "openrouter">>
    /\ last = [kind |-> "http", status |-> 402, body |-> [kind |-> "not_json"]]
    /\ LastReason = <<"Payment required (402)">>
    /\ result.error_details.v[1] = Str(<<"gemini", ":", WS, "HTTP ", "402">>)
    /\ result.error_details.v[2] = Str(<<"groq", ":", WS, "Rate limited (429)">>)

\* C13: a 200 response whose body is empty or unparseable (not JSON, or JSON
\* without the candidates / choices text) is the Empty response failure, for
\* each of the three providers.
C13_EmptyResponse ==
    (LastReturned /\ last.kind = "http" /\ last.status = 200
        /\ ~ IsSuccessEvent(last)) =>
        /\ ~ Answered
        /\ Len(LastReason) = 2
        /\ LastReason[1] = "Empty response from "

-----------------------------------------------------------------------------
(* Properties of the normalized fields, checked under SpecNorm *)

\* Section sec of the raw blueprint as the normalizer reads it
RawSection(sec) == AsDict(Get(AsDict(nraw), sec, EmptyDict))

\* C14: in every output feasibility.feasibility_level is one of High, Medium,
\* Low: a raw value equal to one of the three is kept, any other raw value
\* (missing, other string, other case, not a string) becomes Medium.
C14_FeasibilityLevel ==
    Normalized =>
        LET level == Get(RawSection("feasibility"), "feasibility_level", None)
            out == nout.v["feasibility"].v["feasibility_level"]
        IN  /\ out \in FeasibilityLevels
            /\ level \in FeasibilityLevels => out = level
            /\ level \notin FeasibilityLevels => out = S("Medium")

C14_Witness ==
    /\ npc = "normalized"
    /\ nraw = Dict([feasibility |-> Dict([feasibility_level |-> S("high")])])
    /\ nout.v["feasibility"].v["feasibility_level"] = S("Medium")

\* C15: no list of records (features, system-flow steps, tech-stack entries,
\* comparison existing solutions, viva common and hackathon questions) is an
\* empty list in any output: when the raw list holds no record, synthetic
\* default elements are substituted.
C15_RecordListsFilled ==
    Normalized =>
        /\ nout.v["features"].v["features"].v # <<>>
        /\ nout.v["system_flow"].v["steps"].v # <<>>
        /\ nout.v["tech_stack"].v["primary_stack"].v # <<>>
        /\ nout.v["comparison"].v["existing_solutions"].v # <<>>
        /\ nout.v["viva"].v["common_questions"].v # <<>>
        /\ nout.v["viva"].v["hackathon_questions"].v # <<>>

\* The records of the raw steps list, in order
RawSteps == SelectSeq(ListAt(RawSection("system_flow"), "steps"), IsDict)

\* C16: each output step whose raw step_number is missing or not a number
\* has step_number equal to its 1-based position; a numeric raw step_number
\* is kept.
C16_StepNumber ==
    Normalized =>
        \A i \in 1..Len(RawSteps) :
            LET number == Get(RawSteps[i], "step_number", None)
                out == nout.v["system_flow"].v["steps"].v[i].v["step_number"]
            IN  IF number.t = "num" THEN out = number ELSE out = Num(i)

\* out is the raw value when that is a list, and the fallback otherwise
KeepsList(raw, out, fallback) == IF IsList(raw) THEN out = raw ELSE out = fallback

\* The records of the raw hackathon questions, in order
RawHackathon == SelectSeq(ListAt(RawSection("viva"), "hackathon_questions"), IsDict)

\* C17: every plain list field is output unchanged when its raw value is a
\* list, the empty list included, and as its fixed non-empty fallback list
\* otherwise.
C17_PlainLists ==
    Normalized =>
        /\ KeepsList(Get(RawSection("summary"), "target_users", None),
                     nout.v["summary"].v["target_users"], List(<<S("Users")>>))
        /\ KeepsList(Get(RawSection("summary"), "objectives", None),
                     nout.v["summary"].v["objectives"], List(<<S("Complete the project")>>))
        /\ KeepsList(Get(RawSection("feasibility"), "strengths", None),
                     nout.v["feasibility"].v["strengths"],
                     List(<<S("Good educational value")>>))
        /\ KeepsList(Get(RawSection("feasibility"), "risks", None),
                     nout.v["feasibility"].v["risks"],
                     List(<<S("Time management is important")>>))
        /\ KeepsList(Get(RawSection("comparison"), "unique_aspects", None),
                     nout.v["comparison"].v["unique_aspects"],
                     List(<<S("Custom solution for specific needs")>>))
        /\ (IsList(Get(RawSection("comparison"), "why_this_project_is_still_valuable", None))
              \/ ~ IsList(Get(RawSection("comparison"), "why_still_valuable", None))) =>
              KeepsList(Get(RawSection("comparison"), "why_this_project_is_still_valuable", None),
                        nout.v["comparison"].v["why_this_project_is_still_valuable"],
                        List(<<S("Learning experience"),
                               S("Tailored to specific requirements")>>))
        /\ KeepsList(Get(RawSection("pitch"), "key_points", None),
                     nout.v["pitch"].v["key_points"],
                     List(<<S("Solves real problem"), S("Saves time"), S("User-friendly")>>))
        /\ \A i \in 1..Len(RawHackathon) :
              KeepsList(Get(RawHackathon[i], "key_points", None),
                        nout.v["viva"].v["hackathon_questions"].v[i].v["key_points"],
                        List(<<S("Focus on value delivered")>>))

-----------------------------------------------------------------------------
(* Properties of map_to_frontend_format, checked under SpecNorm *)

\* map_to_frontend_format has run
Mapped == npc \in {"mapped", "mapped_raw"}

Unmap(m) ==
    Dict([
      summary |-> m.v["expandedIdea"],
      features |-> m.v["featuresDetailed"],
      feasibility |-> m.v["evaluation"],
      system_flow |-> m.v["systemFlow"],
      tech_stack |-> Dict([
          primary_stack |-> m.v["techStackExtended"].v["primary_stack"],
          backup_stack |-> m.v["techStackExtended"].v["alternatives"]]),
      comparison |-> m.v["comparison"],
      viva |-> Dict([
          project_overview_explanation |-> m.v["vivaGuide"].v["project_overview_explanation"],
          problem_statement_explanation |-> m.v["vivaGuide"].v["problem_statement_explanation"],
          architecture_explanation |-> m.v["vivaGuide"].v["architecture_explanation"],
          unique_feature_explanation |-> m.v["vivaGuide"].v["unique_feature_explanation"],
          common_questions |-> m.v["vivaGuide"].v["common_questions"],
          hackathon_questions |-> m.v["hackathonViva"].v["hackathon_questions"]]),
      pitch |-> m.v["pitch"],
      diagrams |-> Dict([
          user_flow_mermaid |-> m.v["userFlowMermaid"],
          tech_stack_mermaid |-> m.v["techStackMermaid"]])])

\* C19: map_to_frontend_format is a lossless re-keying of a normalized
\* blueprint: every field value of the nine sections appears unchanged in the
\* output, and the normalized blueprint is read back from it, so distinct
\* normalized blueprints give distinct outputs.
C19_Lossless ==
    npc = "mapped" =>
        /\ ~ nmap.raised
        /\ Unmap(nmap.value) = nout
        /\ nmap.value.v["techStack"] = nout.v["tech_stack"].v["primary_stack"]
        /\ nmap.value.v["hackathonViva"].v["viva_questions"]
              = nout.v["viva"].v["common_questions"]

C19_Witness ==
    /\ npc = "mapped"
    /\ nraw = Dict([viva |-> Dict([hackathon_questions |->
                       List(<<Dict([question |-> Str(<<WS, "text", WS>>)])>>)])])
    /\ nmap.value.v["hackathonViva"].v["hackathon_questions"].v[1].v["question"] = S("text")
    /\ Unmap(nmap.value) = nout

\* C20: for the empty raw blueprint the mapped structure has a techStack list
\* of at least 3 entries and a non-empty userFlowMermaid string that starts
\* with flowchart.
C20_EmptyBlueprint ==
    (npc = "mapped" /\ nraw = EmptyDict) =>
        /\ ~ nmap.raised
        /\ IsList(nmap.value.v["techStack"])
        /\ Len(nmap.value.v["techStack"].v) >= 3
        /\ NonEmptyStr(nmap.value.v["userFlowMermaid"])
        /\ StartsWith(nmap.value.v["userFlowMermaid"].v, <<"flowchart">>)

C20_Witness ==
    /\ npc = "mapped"
    /\ nraw = EmptyDict
    /\ Len(nmap.value.v["techStack"].v) = 3
    /\ nmap.value.v["techStack"].v[3].v["category"] = S("Database")
    /\ Head(nmap.value.v["userFlowMermaid"].v) = "flowchart"

-----------------------------------------------------------------------------
(* Properties of the provider list, the JSON wrapper and the demo responder,
   checked under Spec *)

\* The credential of provider p is validly configured: not the empty
\* string, not whitespace only, not the placeholder
ValidlyConfigured(p) ==
    /\ env[p] # <<>>
    /\ \E i \in 1..Len(env[p]) : env[p][i] # WS
    /\ env[p] # <<"YOUR_API_KEY_HERE">>

AnsweredInvalidJson ==
    /\ LastSucceeded
    /\ ~ JsonLoads(Stripped(last.body.text)).ok

\* The JSON wrapper has returned after such an answer: no provider beyond the
\* one that answered was called, every earlier provider was called once, and
\* the raw text of the one that answered is the content
C26_RawReturned ==
    (Returned /\ IsJsonEntry(entry) /\ AnsweredInvalidJson) =>
        /\ result.success
        /\ result.content = Str(last.body.text)
        /\ result.provider_used = S(LastCalled)
        /\ Len(calls) <= Len(providers)
        /\ \A i \in 1..Len(calls) : calls[i] = providers[i]
        /\ \A i, j \in 1..Len(calls) : i < j => calls[i] # calls[j]

\* Once the answer is in, no further provider call is made for the request
C26_NoFurtherCall ==
    (/\ pc = "calling"
     /\ IsJsonEntry(entry)
     /\ IsSuccessEvent(last')
     /\ ~ JsonLoads(Stripped(last'.body.text)).ok) =>
        /\ pc' = "done"
        /\ calls' = Append(calls, providers[idx])

C26_NoCallAfterReturn ==
    (Returned /\ IsJsonEntry(entry)) => (calls' = <<>> /\ pc' = "idle")

\* C26: the cascade falls through only on provider-level failure: when a
\* provider answers HTTP 200 with non-empty text that is truncated or
\* otherwise invalid JSON, generate_json_with_fallback attempts no further
\* provider (the calls are those of the one underlying generate_with_fallback
\* call, which ends at that provider) and returns that provider's raw text.
C26_NoMidStreamCascade ==
    /\ [] C26_RawReturned
    /\ [][C26_NoFurtherCall]_vars
    /\ [][C26_NoCallAfterReturn]_vars

C26_Witness ==
    /\ Returned
    /\ IsJsonEntry(entry)
    /\ providers = <<"gemini", "groq", "openrouter">>
    /\ calls = <<"gemini">>
    /\ LastSucceeded
    /\ last.body.text = <<"{", MEMBER>>
    /\ result.content = Str(<<"{", MEMBER>>)

\* The prompt holds keyword w, whatever the case of its letters
Mentions(p, w) == Contains(LowerSeq(p), w)

\* The keyword category of a prompt, the full-blueprint keywords first
DemoCategory(p) ==
    IF Mentions(p, <<"master">>) \/ Mentions(p, <<"blueprint">>) \/ Mentions(p, <<"full">>)
    THEN "blueprint"
    ELSE IF Mentions(p, <<"problem", WS, "statement">>) \/ Mentions(p, <<"expand">>)
    THEN "expanded"
    ELSE "generic"

\* The payload of a category, as the demo responder's text and as the value
\* the JSON wrapper makes of it
DemoText(cat) ==
    CASE cat = "blueprint" -> Str(<<"{", BLUEPRINT_MEMBERS, "}">>)
      [] cat = "expanded" -> Str(<<"{", EXPANDED_MEMBERS, "}">>)
      [] OTHER -> S(DEMO_GENERIC_TEXT)

DemoValue(cat) ==
    CASE cat = "blueprint" -> _get_demo_blueprint
      [] cat = "expanded" -> DemoExpandedIdea
      [] OTHER -> S(DEMO_GENERIC_TEXT)

\* C27: the demo responder selects its payload by case-insensitive keyword
\* category with a fixed precedence: master, blueprint or full give the full
\* demo blueprint, also when problem statement or expand occur too; otherwise
\* problem statement or expand give the expanded idea; otherwise the generic
\* placeholder message. Every branch returns success = True with
\* is_demo = True, and the JSON instruction that generate_json_with_fallback
\* appends does not change the category selected.
C27_DemoCategory ==
    (Returned /\ is_demo_mode) =>
        LET cat == DemoCategory(prompt)
            responded == _get_demo_response(CascadePrompt(entry, prompt))
        IN  /\ responded.success
            /\ responded.is_demo
            /\ responded.content = DemoText(cat)
            /\ DemoCategory(CascadePrompt(entry, prompt)) = cat
            /\ result.success
            /\ result.provider_used = S("demo")
            /\ IF IsJsonEntry(entry)
               THEN result.content = DemoValue(cat)
               ELSE result.content = DemoText(cat) /\ result.is_demo

C27_Witness ==
    /\ Returned
    /\ is_demo_mode
    /\ IsJsonEntry(entry)
    /\ prompt = <<"full", WS, "plan:", WS, "expand", WS, "the", WS, "problem", WS, "statement">>
    /\ result.content = _get_demo_blueprint

\* LLMService.get_status
get_status ==
    [configured |-> ~ is_demo_mode,
     demo_mode |-> is_demo_mode,
     providers_available |-> providers,
     provider_count |-> Len(providers),
     cascade_order |-> <<"Gemini 2.5 Flash", "Groq LLaMA 3.1 70B",
                         "OpenRouter DeepSeek V3:free">>,
     message |-> IF ~ is_demo_mode
                 THEN <<"Cascade active with", WS, StatusText(Len(providers)), WS,
                        "provider(s)">>
                 ELSE <<"Running in demo mode - configure API keys for full features">>]

-----------------------------------------------------------------------------
(* The API: planner_service methods and route handlers on top of the cascade *)

\* The route handlers whose planner_service method awaits the cascade
CascadeEndpoints ==
    {"generate_blueprint", "send_chat_message", "apply_revision", "submit_idea"}

\* The LLMService entry point the planner_service method behind ep awaits
LlmEntry(ep) ==
    IF ep = "generate_blueprint" THEN "generate_json_with_fallback" ELSE "generate_json"

\* The prompt templates, by the demo keywords their text holds: blueprint in
\* the master and the chat template, problem statement in the revision
\* template, none in the clarifying questions prompt
MASTER_BLUEPRINT_PROMPT == <<"Generate", WS, "the", WS, "Blueprint">>
CHAT_MENTOR_PROMPT == <<"do", WS, "not", WS, "say", WS, "your", WS, "blueprint", WS, "is", WS, "ready">>
REVISION_PROMPT == <<"problem", WS, "statement", WS, "and", WS, "change", WS, "request">>
QUESTIONS_PROMPT == <<"clarifying", WS, "questions">>

PromptOf(ep) ==
    CASE ep = "generate_blueprint" -> MASTER_BLUEPRINT_PROMPT
      [] ep = "send_chat_message" -> CHAT_MENTOR_PROMPT
      [] ep = "apply_revision" -> REVISION_PROMPT
      [] ep = "submit_idea" -> QUESTIONS_PROMPT

\* A call returns a value or raises
Return(value) == [raised |-> FALSE, value |-> value]
Raise(exc) == [raised |-> TRUE, exc |-> exc]

\* A planner that hands the content of the cascade to the caller as the
\* blueprint
generate_full_blueprint_Raw(res) ==
    IF ~ res.success
    THEN Return([success |-> FALSE,
                 error |-> RGet(res, "error", S("Failed to generate blueprint")),
                 provider_used |-> RGet(res, "provider_used", None)])
    ELSE Return([success |-> TRUE,
                 blueprint |-> res.content,
                 normalized |-> res.content,
                 provider_used |-> RGet(res, "provider_used", None)])

\* PlannerService.generate_full_blueprint, from the result res of the awaited
\* generate_json_with_fallback on
generate_full_blueprint(res) ==
    IF ~ res.success
    THEN Return([success |-> FALSE,
                 error |-> RGet(res, "error", S("Failed to generate blueprint")),
                 provider_used |-> RGet(res, "provider_used", None)])
    ELSE LET raw_blueprint == IF IsStr(res.content)
                              THEN JsonLoads(res.content.v)
                              ELSE JsonOk(res.content)
         IN  IF ~ raw_blueprint.ok
             THEN Return([success |-> FALSE,
                          error |-> S("AI response was not valid JSON"),
                          provider_used |-> RGet(res, "provider_used", None)])
             ELSE LET normalized == normalize_blueprint(raw_blueprint.value)
                      frontend_format == map_to_frontend_format(normalized)
                  IN  IF frontend_format.raised THEN Raise(frontend_format.exc)
                      ELSE Return([success |-> TRUE,
                                   blueprint |-> frontend_format.value,
                                   normalized |-> normalized,
                                   provider_used |-> RGet(res, "provider_used", None)])

\* The planner_service methods that hand on the content of generate_json as
\* it is; default_error is the method's own error text
PlannerJson(res, default_error) ==
    IF ~ res.success
    THEN Return([success |-> FALSE, error |-> RGet(res, "error", S(default_error))])
    ELSE Return([success |-> TRUE, data |-> res.content])

\* PlannerService.generate_chat_response
generate_chat_response(res) == PlannerJson(res, "Failed to generate response")

\* PlannerService.apply_revision
PlannerService_apply_revision(res) == PlannerJson(res, "Failed to apply revision")

\* PlannerService.generate_clarifying_questions
generate_clarifying_questions(res) == PlannerJson(res, "Failed to generate questions")

\* The planner_service method the handler of ep awaits
PlannerCall(ep, res) ==
    CASE ep = "generate_blueprint" -> generate_full_blueprint(res)
      [] ep = "send_chat_message" -> generate_chat_response(res)
      [] ep = "apply_revision" -> PlannerService_apply_revision(res)
      [] ep = "submit_idea" -> generate_clarifying_questions(res)

\* schemas/response.py: APIResponse
APIResponse(success, message, data, errs) ==
    [success |-> success, message |-> message, data |-> data, errors |-> errs]

\* The handler returned body: it is sent with status 200
Reply(body) == [raised |-> FALSE, status |-> 200, body |-> body]

\* main.py: global_exception_handler, what the end user gets when a handler
\* raised exc
global_exception_handler(exc) ==
    [raised |-> TRUE,
     exc |-> exc,
     status |-> 500,
     body |-> APIResponse(FALSE, S("Oops! Something went wrong on our end."), None,
                List(<<S("Please try again in a moment."),
                       S("If this keeps happening, the AI service might be temporarily unavailable.")>>))]

\* Python's False
False == [t |-> "bool", v |-> FALSE]

\* routers/planning.py: generate_blueprint, after the planner returned ret
generate_blueprint(ret) ==
    IF ~ ret.success
    THEN Reply(APIResponse(FALSE,
            S("The AI service is temporarily unavailable. Please try again in a moment."),
            None,
            List(<<RGet(ret, "error", S("Please try again"))>>)))
    ELSE Reply(APIResponse(TRUE,
            S("Here's your complete project blueprint!"),
            Dict([blueprint |-> ret.blueprint,
                  provider_used |-> RGet(ret, "provider_used", None)]),
            None))

\* routers/chat.py: send_chat_message, after the planner returned ret;
\* result["data"].get raises AttributeError unless data is a dict
send_chat_message(ret) ==
    IF ~ ret.success
    THEN Reply(APIResponse(FALSE,
            S("I couldn't generate a response. Please try again."),
            None,
            List(<<RGet(ret, "error", S("Unknown error"))>>)))
    ELSE IF ~ IsDict(ret.data) THEN global_exception_handler("AttributeError")
    ELSE Reply(APIResponse(TRUE,
            S("Response generated"),
            Dict([ai_response |-> Get(ret.data, "ai_response", Str(<<>>)),
                  draft_summary |-> Get(ret.data, "draft_summary", EmptyDict),
                  is_ready_to_finalize |-> Get(ret.data, "is_ready_to_finalize", False),
                  suggested_next_question |->
                      Get(ret.data, "suggested_next_question", None)]),
            None))

\* The idea a student submits, cleaned
CLEANED_IDEA == "an attendance app for my college"

\* routers/idea.py: submit_idea in interactive mode, after the planner
\* returned ret
submit_idea(ret) ==
    IF ~ ret.success
    THEN Reply(APIResponse(FALSE,
            S("We couldn't generate questions. Please try again."),
            None,
            List(<<RGet(ret, "error", S("Unknown error"))>>)))
    ELSE IF ~ IsDict(ret.data) THEN global_exception_handler("AttributeError")
    ELSE Reply(APIResponse(TRUE,
            S("Great idea! Let's understand it better. Answer these questions:"),
            Dict([mode |-> S("interactive"),
                  raw_idea |-> S(CLEANED_IDEA),
                  questions |-> Get(ret.data, "questions", List(<<>>))]),
            None))

\* The for loop of apply_revision: each suggested section that the list
\* does not hold yet is appended to it
RECURSIVE AppendMissing(_, _)
AppendMissing(sections, suggested) ==
    IF suggested = <<>> THEN sections
    ELSE LET section == Head(suggested)
         IN  AppendMissing(IF \E i \in 1..Len(sections) : sections[i] = section
                           THEN sections
                           ELSE Append(sections, section),
                           Tail(suggested))

\* change_type is a key of the propagation map
KnownChangeType(change_type, propagation) ==
    /\ IsStr(change_type)
    /\ Len(change_type.v) = 1
    /\ change_type.v[1] \in DOMAIN propagation.v

\* routers/revision.py: apply_revision, after the planner returned ret, with
\* propagation the value of CHANGE_PROPAGATION. CHANGE_PROPAGATION.get gives
\* the list the map holds, not a copy, so what the loop appends stays in the
\* map; for an unknown change type the list is a new one.
apply_revision(ret, propagation) ==
    IF ~ ret.success
    THEN [reply |-> Reply(APIResponse(FALSE,
                        S("Couldn't process the change request."),
                        None,
                        List(<<RGet(ret, "error", S("Please try again"))>>))),
          propagation |-> propagation]
    ELSE IF ~ IsDict(ret.data)
    THEN [reply |-> global_exception_handler("AttributeError"),
          propagation |-> propagation]
    ELSE LET change_type == Get(ret.data, "change_type", S("feature"))
             known == KnownChangeType(change_type, propagation)
             listed == IF known THEN propagation.v[change_type.v[1]] ELSE List(<<>>)
             ai_suggested_sections == Get(ret.data, "sections_affected", List(<<>>))
             sections_to_regenerate ==
                 List(AppendMissing(listed.v, ai_suggested_sections.v))
         IN  [reply |-> Reply(APIResponse(TRUE,
                            Str(<<"Change applied: ">>
                                \o Get(ret.data, "change_description",
                                       S("Summary updated")).v),
                            Dict([updated_summary |->
                                      Get(ret.data, "updated_summary", EmptyDict),
                                  change_type |-> change_type,
                                  change_description |->
                                      Get(ret.data, "change_description", Str(<<>>)),
                                  sections_to_regenerate |-> sections_to_regenerate]),
                            None)),
              propagation |->
                  IF known
                  THEN Dict([propagation.v EXCEPT
                                ![change_type.v[1]] = sections_to_regenerate])
                  ELSE propagation]

\* The keys of CHANGE_PROPAGATION in insertion order
CHANGE_TYPES == <<"feature", "tech", "scope", "wording">>

\* routers/revision.py: get_propagation_map
get_propagation_map(propagation) ==
    Reply(APIResponse(TRUE,
        S("Propagation map retrieved"),
        Dict([propagation_map |-> propagation, change_types |-> Strs(CHANGE_TYPES)]),
        None))

\* What the handler of ep returns to the end user, and what it leaves in
\* CHANGE_PROPAGATION, after the planner returned ret
Route(ep, ret, propagation) ==
    CASE ep = "generate_blueprint" ->
            [reply |-> generate_blueprint(ret), propagation |-> propagation]
      [] ep = "send_chat_message" ->
            [reply |-> send_chat_message(ret), propagation |-> propagation]
      [] ep = "apply_revision" -> apply_revision(ret, propagation)
      [] ep = "submit_idea" ->
            [reply |-> submit_idea(ret), propagation |-> propagation]

\* routers/mentor_chat.py: GROQ_CHAT_API_KEY, read from the environment with
\* GROQ_API_KEY as its default; GROQ_CHAT_API_KEY itself is not set here
GROQ_CHAT_API_KEY == env["groq"]

\* routers/mentor_chat.py: call_groq_fast, on what the transport does with
\* its POST
call_groq_fast(tr) ==
    IF tr.kind = "timeout" THEN Failure(<<"Request timed out">>)
    ELSE IF tr.kind = "exception" THEN Failure(<<tr.message>>)
    ELSE CASE tr.status = 200 ->
                (CASE tr.body.kind = "text" ->
                        IF tr.body.text # <<>>
                        THEN [success |-> TRUE, content |-> Str(Strip(tr.body.text))]
                        ELSE Failure(<<"Empty response from ", "Groq">>)
                   [] tr.body.kind = "no_text" -> Failure(<<"Empty response from ", "Groq">>)
                   [] tr.body.kind = "empty_list" -> Failure(<<"list index out of range">>)
                   [] tr.body.kind = "not_json" ->
                        Failure(<<"Expecting value: line 1 column 1 (char 0)">>))
           [] tr.status = 429 -> Failure(<<"Too many requests. Please wait a moment.">>)
           [] OTHER -> Failure(<<"HTTP ", StatusText(tr.status)>>)

\* routers/mentor_chat.py: send_mentor_message; ms is the time the call took.
\* call_groq_fast catches every exception itself, so the handler's own except
\* clause is never entered.
send_mentor_message(tr, ms) ==
    IF GROQ_CHAT_API_KEY = <<>> \/ GROQ_CHAT_API_KEY = PLACEHOLDER_KEY
    THEN Reply(APIResponse(FALSE,
            S("Mentor chat is not configured. Please add GROQ_API_KEY or GROQ_CHAT_API_KEY to your .env file."),
            None,
            List(<<S("Missing API key configuration")>>)))
    ELSE LET answer == call_groq_fast(tr)
         IN  IF answer.success
             THEN Reply(APIResponse(TRUE,
                     Str(<<>>),
                     Dict([response |-> answer.content, response_time_ms |-> Num(ms)]),
                     None))
             ELSE Reply(APIResponse(FALSE,
                     S("Mentor chat is temporarily unavailable."),
                     None,
                     List(<<RGet(answer, "error", S("Unknown error"))>>)))

-----------------------------------------------------------------------------
(* The API serving requests one after another *)

\* The keys of the environment here: unset or a real key
ApiKeyValues == {<<>>, <<"sk-live">>}

\* The texts a provider answers a planner prompt with: a number, prose, an
\* empty object, a truncated object, an object without any known key, an
\* object with a fence inside a string, the three revision answers
ApiTexts ==
    {<<"1">>, <<"prose">>, <<"{", "}">>, <<"{", MEMBER>>, <<"{", MEMBER, "}">>,
     <<"{", MEMBER_OPEN, FENCE, QUOTE, "}">>}
    \cup {<<"{", c, "}">> : c \in RevisionChunks}

Http(status, body) == [kind |-> "http", status |-> status, body |-> body]

ApiSuccessEvents == {Http(200, [kind |-> "text", text |-> t]) : t \in ApiTexts}

ApiFailureEvents ==
    {Http(429, [kind |-> "not_json"]), Http(500, [kind |-> "not_json"]),
     Http(200, [kind |-> "no_text"]), [kind |-> "timeout"]}

\* What the transport does with the POST of the mentor chat
MentorEvents ==
    ApiFailureEvents
    \cup {Http(200, [kind |-> "text", text |-> <<"prose", WS>>]),
          Http(200, [kind |-> "not_json"]),
          [kind |-> "exception", message |-> "All connection attempts failed"]}

\* Milliseconds a mentor chat call takes
ResponseTimes == {40, 900}

\* The state after startup: the modules imported, no request yet
InitApi ==
    /\ env \in [Providers -> ApiKeyValues]
    /\ providers = _build_provider_list(env)
    /\ is_demo_mode = IS_DEMO_MODE(env)
    /\ pc = "idle"
    /\ NoRequest
    /\ NormIdle
    /\ CHANGE_PROPAGATION = StartupPropagation
    /\ apc = "idle"
    /\ endpoint = "none"
    /\ planned = None
    /\ response = None

\* A valid request reaches the handler of ep, which calls its planner_service
\* method
Receive(ep) ==
    /\ apc = "idle"
    /\ apc' = "handling"
    /\ endpoint' = ep
    /\ UNCHANGED <<CHANGE_PROPAGATION, planned, response, cascadeVars, normVars>>

\* The planner_service method awaits the cascade
AwaitCascade ==
    /\ apc = "handling"
    /\ \/ StartDemo(LlmEntry(endpoint), PromptOf(endpoint))
       \/ StartCascade(LlmEntry(endpoint), PromptOf(endpoint))

\* The cascade has returned (or raised): the planner_service method and the
\* handler run to their end
Respond ==
    /\ apc = "handling"
    /\ pc = "done"
    /\ LET ret == IF raised THEN Raise("Exception") ELSE PlannerCall(endpoint, result)
           out == IF ret.raised
                  THEN [reply |-> global_exception_handler(ret.exc),
                        propagation |-> CHANGE_PROPAGATION]
                  ELSE Route(endpoint, ret.value, CHANGE_PROPAGATION)
       IN  /\ planned' = ret
           /\ response' = out.reply
           /\ CHANGE_PROPAGATION' = out.propagation
    /\ apc' = "responded"
    /\ UNCHANGED <<endpoint, cascadeVars, normVars>>

\* POST /api/mentor-chat/message
MentorMessage(tr, ms) ==
    /\ apc = "idle"
    /\ endpoint' = "send_mentor_message"
    /\ response' = send_mentor_message(tr, ms)
    /\ apc' = "responded"
    /\ UNCHANGED <<CHANGE_PROPAGATION, planned, cascadeVars, normVars>>

\* GET /api/revision/propagation-map
PropagationMap ==
    /\ apc = "idle"
    /\ endpoint' = "get_propagation_map"
    /\ response' = get_propagation_map(CHANGE_PROPAGATION)
    /\ apc' = "responded"
    /\ UNCHANGED <<CHANGE_PROPAGATION, planned, cascadeVars, normVars>>

\* The response is sent; the next request can be served
Finish ==
    /\ apc = "responded"
    /\ apc' = "idle"
    /\ endpoint' = "none"
    /\ planned' = None
    /\ response' = None
    /\ pc' = "idle"
    /\ entry' = "none"
    /\ prompt' = <<>>
    /\ idx' = 0
    /\ errors' = <<>>
    /\ calls' = <<>>
    /\ last' = NoEvent
    /\ result' = None
    /\ raised' = FALSE
    /\ UNCHANGED <<env, providers, is_demo_mode, CHANGE_PROPAGATION, normVars>>

NextApi ==
    \/ \E ep \in CascadeEndpoints : Receive(ep)
    \/ AwaitCascade
    \/ \E ev \in ApiSuccessEvents : ProviderSucceeds(ev)
    \/ \E ev \in ApiFailureEvents : ProviderFails(ev)
    \/ \E ev \in RaiseEvents : ProviderRaises(ev)
    \/ Respond
    \/ \E tr \in MentorEvents, ms \in ResponseTimes : MentorMessage(tr, ms)
    \/ PropagationMap
    \/ Finish

SpecApi == InitApi /\ [][NextApi]_vars

-----------------------------------------------------------------------------
(* Properties of the API, checked under SpecApi *)

\* The handler of ep has run to its end for the request in hand
Responded(ep) == apc = "responded" /\ endpoint = ep

\* Every provider of the cascade failed for the request in hand
AllProvidersFailed ==
    /\ pc = "done"
    /\ ~ raised
    /\ ~ is_demo_mode
    /\ ~ result.success
    /\ calls = providers

\* C21: when every provider in the cascade fails during full-blueprint
\* generation, the complete fallback is used: generate_full_blueprint still
\* hands its caller the fully populated normalized blueprint of a null / empty
\* input, so the end user gets a usable blueprint.
C21_FallbackBlueprint ==
    (Responded("generate_blueprint") /\ AllProvidersFailed) =>
        /\ ~ planned.raised
        /\ "blueprint" \in DOMAIN planned.value
        /\ planned.value.blueprint
              \in {get_fallback_blueprint,
                   normalize_blueprint(None),
                   map_to_frontend_format(normalize_blueprint(None)).value}
        /\ response.body.data # None

\* The frontend blueprint that normalization alone gives
AllDefaultsBlueprint == map_to_frontend_format(get_fallback_blueprint).value

\* The top-level keys of the frontend format
FrontendKeys ==
    {"expandedIdea", "evaluation", "featuresDetailed", "systemFlow", "techStack",
     "techStackExtended", "comparison", "vivaGuide", "hackathonViva", "pitch",
     "userFlowMermaid", "techStackMermaid"}

\* The value generate_full_blueprint normalizes: the content of the cascade,
\* parsed when it is a string
ParsedContent ==
    IF IsStr(result.content) THEN JsonLoads(result.content.v).value ELSE result.content

\* C30: whenever generate_full_blueprint returns success = True its blueprint
\* is map_to_frontend_format of the output of normalize_blueprint, never the
\* raw provider content: every top-level frontend key is there with a
\* non-empty value, also when the provider's text parses to JSON that is not
\* an object or is an object with none of the nine sections (then the
\* blueprint is the all-defaults one). Whenever it returns success = False the
\* result has no blueprint and carries an error string.
C30_BlueprintNormalized ==
    Responded("generate_blueprint") =>
        /\ ~ planned.raised
        /\ IF planned.value.success
           THEN /\ result.success
                /\ planned.value.blueprint =
                      map_to_frontend_format(normalize_blueprint(ParsedContent)).value
                /\ planned.value.normalized = normalize_blueprint(ParsedContent)
                /\ planned.value.blueprint # result.content
                /\ DOMAIN planned.value.blueprint.v = FrontendKeys
                /\ \A k \in FrontendKeys : Truthy(planned.value.blueprint.v[k])
                /\ (~ IsDict(ParsedContent) \/ DOMAIN ParsedContent.v \cap Sections = {})
                      => planned.value.blueprint = AllDefaultsBlueprint
           ELSE /\ "blueprint" \notin DOMAIN planned.value
                /\ IsStr(planned.value.error)
                /\ planned.value.error.v # <<>>

C30_Witness ==
    /\ Responded("generate_blueprint")
    /\ calls = <<"gemini", "groq">>
    /\ result.content = Num(1)
    /\ planned.value.success
    /\ planned.value.blueprint = AllDefaultsBlueprint
    /\ response.body.data.v["blueprint"] = AllDefaultsBlueprint

\* C22: after any sequence of API requests all module-level shared state
\* equals its value at startup: the provider list and the demo flag are those
\* the keys give, and the CHANGE_PROPAGATION map that POST /api/revision/apply
\* and GET /api/revision/propagation-map read is the one the module defined.
\* No request handler changes state that a later request reads.
C22_SharedStateUnchanged ==
    /\ providers = _build_provider_list(env)
    /\ is_demo_mode = IS_DEMO_MODE(env)
    /\ CHANGE_PROPAGATION = StartupPropagation
    /\ Responded("get_propagation_map") =>
          response.body.data.v["propagation_map"] = StartupPropagation

\* The change type and the suggested sections the handler of
\* POST /api/revision/apply read from the planner's data
RevisionChangeType == Get(planned.value.data, "change_type", S("feature"))
RevisionSuggested == Get(planned.value.data, "sections_affected", List(<<>>))

\* The startup propagation list of a change type, empty for an unknown one
StartupList(change_type) ==
    IF KnownChangeType(change_type, StartupPropagation)
    THEN StartupPropagation.v[change_type.v[1]]
    ELSE List(<<>>)

\* C28: for every successful POST /api/revision/apply,
\* sections_to_regenerate is the startup propagation list of the returned
\* change_type (empty for an unknown change type) followed by the AI-suggested
\* sections_affected that are not already in it, in order and without
\* duplicates; it depends only on this request's change_type and
\* sections_affected, not on the revision requests processed earlier.
C28_SectionsToRegenerate ==
    (Responded("apply_revision") /\ ~ response.raised /\ response.body.success) =>
        /\ response.body.data.v["change_type"] = RevisionChangeType
        /\ response.body.data.v["sections_to_regenerate"] =
              List(AppendMissing(StartupList(RevisionChangeType).v, RevisionSuggested.v))

\* The cascade returned a Success for the request in hand
CascadeSucceeded == pc = "done" /\ ~ raised /\ result.success

\* C24: every caller of the JSON-flavored cascade handles both kinds of
\* Success payload: when generate_json / generate_json_with_fallback returns
\* success with raw text (or any content that is not an object), the
\* planner_service method and the route handler (chat message, revision apply,
\* idea submit in interactive mode, full-blueprint generation) complete with a
\* well-formed API response and do not raise.
C24_BothPayloadsHandled ==
    (apc = "responded" /\ endpoint \in CascadeEndpoints /\ CascadeSucceeded) =>
        /\ ~ planned.raised
        /\ ~ response.raised
        /\ response.status = 200
        /\ DOMAIN response.body = {"success", "message", "data", "errors"}

\* The failure reasons of the provider-call taxonomy and the messages of
\* exceptions: internal diagnostics
DiagnosticTexts ==
    {CallProvider(p, ev).error.v : p \in Providers, ev \in FailureEvents}
    \cup {<<m>> : m \in EscapeMessages}

ProviderNames == {"gemini", "groq", "openrouter", "Gemini", "Groq", "DeepSeek"}

\* The text names a provider, gives a raw HTTP status, or is a failure reason
\* or an exception message
Discloses(text) ==
    \/ text \in DiagnosticTexts
    \/ \E i \in 1..Len(text) : text[i] \in ProviderNames \cup {"HTTP "}
    \/ \E p \in Providers, d \in DiagnosticTexts : text = <<p, ":", WS>> \o d

\* C23: no failure response an endpoint returns to the end user holds a
\* provider name, a raw HTTP status, an exception message or a per-provider
\* failure reason: those stay internal and the failure text the user sees is
\* a short generic sentence only. This holds for the cascade-backed endpoints
\* and for the fast mentor chat, POST /api/mentor-chat/message.
C23_NoDiagnosticsToUser ==
    (apc = "responded" /\ ~ response.body.success) =>
        /\ ~ Discloses(response.body.message.v)
        /\ response.body.errors # None =>
              \A i \in 1..Len(response.body.errors.v) :
                  ~ Discloses(response.body.errors.v[i].v)

=============================================================================
